---------------------------- MODULE Spec2Model ----------------------------
(***************************************************************************)
(* A model of sqlite_viewer.py: the DataframeConnection adapter with its   *)
(* two lru_cache(maxsize=1) memoizers, and the SQLiteViewer frame: its     *)
(* control (GUI) thread, the wx.CallAfter queue, the load and fit worker   *)
(* threads, list_ctrl_lock and the 600 ms grace timers.                    *)
(*                                                                         *)
(* Strings whose content matters (cell values, search queries) are         *)
(* sequences of character codes; names (tables, columns, files) are TLA+   *)
(* strings.  None is the string "None" for names and <<>> for a query.     *)
(***************************************************************************)
EXTENDS Integers, Sequences, FiniteSets, TLC

\* ------------------------------------------------------------------ bounds

\* The number of worker threads (load and fit tasks) started in a run.
MaxTasks == 2

\* ------------------------------------------------------------ the files

None == "None"
NoQuery == <<>>

\* The files the user can open: a relational file with two tables, a
\* delimited-text file that is not valid UTF-8, a file whose extension is
\* not supported, and a relational file with no table.
Files == {"a.db", "b.csv", "c.txt", "e.db"}

\* Further names a file may be opened under: the relational file with its
\* extension in capitals, a text file likewise, and a file without extension.
OtherFiles == {"A.DB", "G.TXT", "h"}

\* The extensions the program knows, as character codes: ".db", ".db3",
\* ".sqlite", ".sqlite3", ".xlsx", ".csv".
ExtDb == <<46, 100, 98>>
ExtDb3 == <<46, 100, 98, 51>>
ExtSqlite == <<46, 115, 113, 108, 105, 116, 101>>
ExtSqlite3 == <<46, 115, 113, 108, 105, 116, 101, 51>>
ExtXlsx == <<46, 120, 108, 115, 120>>
ExtCsv == <<46, 99, 115, 118>>

\* path.splitext(db_file)[1], as character codes.
Ext(f) ==
    CASE f \in {"a.db", "e.db", "t.db"} -> ExtDb
      [] f = "b.csv" -> ExtCsv
      [] f = "A.DB" -> <<46, 68, 66>>
      [] f = "G.TXT" -> <<46, 84, 88, 84>>
      [] f = "h" -> <<>>
      [] OTHER -> <<46, 116, 120, 116>>

SqliteTypes == {ExtDb, ExtDb3, ExtSqlite, ExtSqlite3}

\* The tables of a relational file as sqlite_master lists them.
SqliteTables(f) ==
    IF f \in {"a.db", "A.DB"} THEN <<"T1", "T2">>
    ELSE IF f = "t.db" THEN <<"T2">>
    ELSE <<>>

\* Column names and inferred types of each table.
Columns(t) == IF t = "T1" THEN <<"id", "name">> ELSE <<"id", "val">>

IsNumeric(t, c) == c \in {"id", "val"}

\* Number of rows of each table: both span several pages of the smaller
\* page size.
NRows(t) == IF t = "T1" THEN 12 ELSE 10

\* The cell of row i (1-based load order) in column c.  Numeric cells are
\* integers, text cells are sequences of character codes.  The keys of each
\* column are pairwise distinct, so that sort_values has one result.
\*   id:   13 - i   (the load order is not the sorted order)
\*   val:  10 * i
\*   name: chr(65 + i % 3) chr(96 + i):  "Ba", "Cb", "Ac", "Bd", ...
Cell(t, i, c) ==
    CASE c = "id" -> 13 - i
      [] c = "val" -> 10 * i
      [] OTHER -> <<65 + (i % 3), 96 + i>>

\* Missing values (NaN) of numeric columns: T2.val has a value in its first
\* two rows only, and T1.id in its first nine rows of twelve.
IsNa(t, i, c) == (t = "T2" /\ c = "val" /\ i > 2) \/ (t = "T1" /\ c = "id" /\ i > 9)

\* The search queries the user types: "b" (matches "B.." and ".b" of T1 by
\* case-insensitive comparison) and "zz" (matches no row).
Queries == {<<98>>, <<122, 122>>}

\* items_per_page_options of the menu that the model lets the user choose
\* (the program offers 5, 10, 25, 50, 100, 250, 500, 1000).
ItemsPerPageOptions == {5, 250}

DefaultItemsPerPage == 250

\* ------------------------------------------------------- string helpers

\* str(n) for 0 <= n < 1000, as character codes.
RECURSIVE Str(_)
Str(n) == IF n < 10 THEN <<48 + n>> ELSE Str(n \div 10) \o <<48 + (n % 10)>>

\* str.lower() on one character code.
Lower(ch) == IF ch >= 65 /\ ch <= 90 THEN ch + 32 ELSE ch

LowerStr(s) == [k \in 1..Len(s) |-> Lower(s[k])]

\* self.file_type = path.splitext(db_file)[1].lower()
file_type(f) == LowerStr(Ext(f))

\* s.str.contains(q, case=False, regex=False)
Contains(s, q) ==
    \E k \in 0..(Len(s) - Len(q)) :
        \A j \in 1..Len(q) : Lower(s[k + j]) = Lower(q[j])

\* A numeric column with a missing value is a float64 column.
IsFloat(t, c) == IsNumeric(t, c) /\ \E i \in 1..NRows(t) : IsNa(t, i, c)

\* df.astype(str): the string form of a cell ("nan", "7", "70.0", "Ba").
CellStr(t, i, c) ==
    IF IsNa(t, i, c) THEN <<110, 97, 110>>
    ELSE IF IsFloat(t, c) THEN Str(Cell(t, i, c)) \o <<46, 48>>
    ELSE IF IsNumeric(t, c) THEN Str(Cell(t, i, c)) ELSE Cell(t, i, c)

\* Lexicographic order of two sequences of character codes.
StrLess(a, b) ==
    \E k \in 1..(Len(b)) :
        /\ \A j \in 1..(k - 1) : j <= Len(a) /\ a[j] = b[j]
        /\ (k > Len(a) \/ (k <= Len(a) /\ a[k] < b[k]))

\* The natural ordering of the cells of column c.
CellLess(t, c, i, j) ==
    IF IsNumeric(t, c) THEN Cell(t, i, c) < Cell(t, j, c)
    ELSE StrLess(Cell(t, i, c), Cell(t, j, c))

SeqToSet(s) == {s[k] : k \in 1..Len(s)}

\* ------------------------------------------------------------ the view

\* The rows of a sequence of row numbers that satisfy the search.
RECURSIVE FilterRows(_, _, _)
FilterRows(t, rows, q) ==
    IF rows = <<>> THEN <<>>
    ELSE LET i == Head(rows)
             keep == \E c \in SeqToSet(Columns(t)) : Contains(CellStr(t, i, c), q)
         IN (IF keep THEN <<i>> ELSE <<>>) \o FilterRows(t, Tail(rows), q)

\* df.sort_values(by=c, ascending=asc): the rows with a value come first, in
\* the order of their keys (the keys are distinct: the row at position k is
\* the one with k - 1 rows before it); the rows with a missing value follow
\* in the frame's order (na_position="last").
SortRows(t, rows, c, asc) ==
    LET Pos(i) == CHOOSE k \in 1..Len(rows) : rows[k] = i
        S == SeqToSet(rows)
        Val == {i \in S : ~IsNa(t, i, c)}
        Before(i) ==
            IF IsNa(t, i, c)
            THEN Val \cup {j \in S \ Val : Pos(j) < Pos(i)}
            ELSE {j \in Val : IF asc THEN CellLess(t, c, j, i) ELSE CellLess(t, c, i, j)}
    IN [k \in 1..Len(rows) |-> CHOOSE i \in S : Cardinality(Before(i)) = k - 1]

\* A slice that takes the row after its last one, too.
SliceInclusive(rows, offset, page_size) ==
    IF offset >= Len(rows) THEN <<>>
    ELSE SubSeq(rows, offset + 1,
                IF offset + page_size + 1 > Len(rows) THEN Len(rows) ELSE offset + page_size + 1)

\* df.iloc[offset:offset+page_size]
Slice(rows, offset, page_size) ==
    IF offset >= Len(rows) THEN <<>>
    ELSE SubSeq(rows, offset + 1, IF offset + page_size > Len(rows) THEN Len(rows) ELSE offset + page_size)

\* int(np.ceil(total_rows / page_size))
CeilDiv(total_rows, page_size) == (total_rows + page_size - 1) \div page_size


\* ------------------------------------------------------------ the state

VARIABLES
    conns,          \* the DataframeConnection objects created so far: conns[c] is db_file
    db,             \* self.db: 0 (None) or a connection
    dfCache,        \* the lru_cache(maxsize=1) of get_df (one for the class)
    viewCache,      \* the lru_cache(maxsize=1) of get_filtered_sorted_df
    nObj,           \* the number of DataFrame objects created (object identity)
    current_page, total_pages, sort_column, sort_order, search_query,
    items_per_page,
    table_switcher, \* [items, sel]: the choice's items and GetStringSelection()
    list_ctrl,      \* [cols, rows, req]: the list's columns and rows, and the task that put them
    sort_indicator, \* the list header's sort indicator: <<>> or <<col index, ascending>>
    next_enabled,   \* next_page_button.IsEnabled()
    status,         \* the status bar's text (its wording without the numbers)
    column_attr,    \* self.column_attr: [current_table, saved]
    ignore_filters, \* ColumnSelectionDialog.ignore_filters
    plots,          \* the best-fit plots delivered: a set of [req, dist]
    queue,          \* the wx.CallAfter events not yet run, oldest first
    tasks,          \* the worker threads started, in submission order
    lock,           \* list_ctrl_lock: 0 or the task that holds it
    dialog,         \* the task whose progress dialog the control thread is pulsing, or 0
    rawLog,         \* history: the last get_df call
    viewLog,        \* history: the last get_filtered_sorted_df call
    probe           \* the arguments and the result of a function applied on its own

vars == <<conns, db, dfCache, viewCache, nObj, current_page, total_pages,
          sort_column, sort_order, search_query, items_per_page, table_switcher,
          list_ctrl, sort_indicator, next_enabled, status, column_attr,
          ignore_filters, plots, queue, tasks, lock, dialog, rawLog, viewLog, probe>>

\* ------------------------------------------------- DataframeConnection

\* A DataFrame object: the table whose rows it holds, the rows (numbers of
\* the table's rows, in the frame's order) and the object's identity.
NoDf == [tab |-> None, rows |-> <<>>, id |-> 0]

\* An lru_cache is the sequence of its entries [key, val], the least
\* recently used first.  NoEntry is the cache with no entry.
NoEntry == <<>>

\* maxsize of the decorators of get_df and of get_filtered_sorted_df.
maxsize_df == 1

\* A view cache that keeps one entry more.
maxsize_view_grown == maxsize_df + 1
maxsize_view == 1

\* get_table_or_sheet_names: the names, or <<"Raise">> for ValueError.
get_table_or_sheet_names(f) ==
    IF file_type(f) \in SqliteTypes THEN SqliteTables(f)
    ELSE IF file_type(f) = ExtXlsx THEN <<"Sheet1">>
    ELSE IF file_type(f) = ExtCsv THEN <<"CSV file">>
    ELSE <<"Raise">>

\* What the bytes of a delimited-text file are: not UTF-8, or, where the
\* content is chosen beforehand, that content.
CsvKind(f) == IF probe.fn = "kind" THEN probe.kind ELSE "undecodable"

\* The attempts of _get_csv_dataframe: pd.read_csv with the comma and
\* on_bad_lines="error", and with sep=";" and on_bad_lines="warn".
\* UnicodeDecodeError and ParserError are ValueErrors.
ReadCsvComma(kind) ==
    CASE kind = "comma" -> "ok"
      [] kind = "empty" -> "EmptyDataError"
      [] OTHER -> "ValueError"

ReadCsvSemicolon(kind) ==
    CASE kind = "semicolon" -> "ok"
      [] kind = "comma" -> "ok"
      [] OTHER -> "ValueError"

\* A _get_csv_dataframe without the clause for EmptyDataError, which is a
\* ValueError.
get_csv_dataframe_unguarded(f) ==
    IF ReadCsvComma(CsvKind(f)) = "ok" \/ ReadCsvSemicolon(CsvKind(f)) = "ok"
    THEN "CSV file" ELSE "Raise"

\* _get_csv_dataframe: the table read ("Empty" for pd.DataFrame()), or "Raise".
get_csv_dataframe(f) ==
    LET first == ReadCsvComma(CsvKind(f))
    IN CASE first = "ok" -> "CSV file"
         [] first = "EmptyDataError" -> "Empty"
         [] OTHER -> IF ReadCsvSemicolon(CsvKind(f)) = "ok" THEN "CSV file" ELSE "Raise"

\* _get_sqlite_dataframe: SELECT * FROM table_name fails for a name that is
\* no table of the file.
get_sqlite_dataframe(f, t) ==
    IF t \in SeqToSet(SqliteTables(f)) THEN t ELSE "Raise"

\* The body of get_df: the table read, or "Raise".
get_df_body(f, t) ==
    IF file_type(f) \in SqliteTypes THEN get_sqlite_dataframe(f, t)
    ELSE IF file_type(f) = ExtXlsx THEN "Raise"
    ELSE IF file_type(f) = ExtCsv THEN get_csv_dataframe(f)
    ELSE "Raise"

\* Columns and rows of a loaded table.
DfColumns(tab) == IF tab \in {"T1", "T2", "CSV file"} THEN Columns(tab) ELSE <<>>
DfRows(tab) == IF tab \in {"T1", "T2", "CSV file"} THEN [i \in 1..NRows(tab) |-> i] ELSE <<>>

\* The keys an lru_cache holds.
CacheKeys(cache) == {cache[k].key : k \in 1..Len(cache)}

\* A lookup that never finds the key.
lru_hit_never(cache, key) == FALSE

\* lru_cache's lookup: the call's arguments (self included) are the key.
lru_hit(cache, key) == key \in CacheKeys(cache)

\* The value stored for a key the cache holds.
lru_value(cache, key) == (CHOOSE k \in 1..Len(cache) : cache[k].key = key)

\* The cache after a hit: the entry becomes the most recently used.
lru_touch(cache, key) ==
    LET k == lru_value(cache, key)
    IN SelectSeq([j \in 1..Len(cache) |-> IF j = k THEN NoDf ELSE cache[j]],
                 LAMBDA e : e # NoDf) \o <<cache[k]>>

\* A store that never drops an entry.
lru_store_keeping(cache, key, val, maxsize) == cache \o <<[key |-> key, val |-> val]>>

\* lru_cache's store after a miss: a full cache drops its least recently
\* used entry, and the new entry is added.
lru_store(cache, key, val, maxsize) ==
    (IF Len(cache) >= maxsize THEN Tail(cache) ELSE cache) \o <<[key |-> key, val |-> val]>>

\* A get_df whose miss drops the stored entry before the body runs, so that a
\* body that raises leaves the cache empty.
get_df_evicting(cache, nobj, c, t) ==
    LET key == <<c, t>>
    IN IF lru_hit(cache, key)
       THEN [ok |-> TRUE, ret |-> cache[lru_value(cache, key)].val,
             cache |-> lru_touch(cache, key), nobj |-> nobj, ncomp |-> 0]
       ELSE LET tab == get_df_body(conns[c], t)
            IN IF tab = "Raise"
               THEN [ok |-> FALSE, ret |-> NoDf, cache |-> NoEntry, nobj |-> nobj, ncomp |-> 1]
               ELSE LET v == [tab |-> tab, rows |-> DfRows(tab), id |-> nobj + 1]
                    IN [ok |-> TRUE, ret |-> v, cache |-> lru_store(cache, key, v, maxsize_df),
                        nobj |-> nobj + 1, ncomp |-> 1]

\* get_df(table_name) on connection c, with the cache and the object count
\* as they are before the call: whether it returns, the frame returned, the
\* cache and object count afterwards, and the number of times the body ran.
\* A body that raises stores nothing.
get_df(cache, nobj, c, t) ==
    LET key == <<c, t>>
    IN IF lru_hit(cache, key)
       THEN [ok |-> TRUE, ret |-> cache[lru_value(cache, key)].val,
             cache |-> lru_touch(cache, key), nobj |-> nobj, ncomp |-> 0]
       ELSE LET tab == get_df_body(conns[c], t)
            IN IF tab = "Raise"
               THEN [ok |-> FALSE, ret |-> NoDf, cache |-> cache, nobj |-> nobj, ncomp |-> 1]
               ELSE LET v == [tab |-> tab, rows |-> DfRows(tab), id |-> nobj + 1]
                    IN [ok |-> TRUE, ret |-> v, cache |-> lru_store(cache, key, v, maxsize_df),
                        nobj |-> nobj + 1, ncomp |-> 1]

\* The body of get_filtered_sorted_df on the frame get_df returned: filter,
\* then sort.  Each step that applies makes a new frame; with neither the
\* frame returned is get_df's own.  sort_values raises KeyError for a
\* column the frame does not have.
view_body(df, nobj, sc, so, sq) ==
    LET filtered == IF sq # NoQuery
                    THEN [tab |-> df.tab, rows |-> FilterRows(df.tab, df.rows, sq), id |-> nobj + 1]
                    ELSE df
        n1 == IF sq # NoQuery THEN nobj + 1 ELSE nobj
    IN IF sc = None THEN [ok |-> TRUE, ret |-> filtered, nobj |-> n1]
       ELSE IF sc \notin SeqToSet(DfColumns(df.tab)) THEN [ok |-> FALSE, ret |-> NoDf, nobj |-> n1]
       ELSE [ok |-> TRUE,
             ret |-> [tab |-> df.tab, rows |-> SortRows(df.tab, filtered.rows, sc, so), id |-> n1 + 1],
             nobj |-> n1 + 1]

\* get_filtered_sorted_df(table_name, sort_column, sort_order, search_query)
\* on connection c, with both caches as they are before the call.  rawres
\* is the result of the get_df call its body makes (rawcall: it made one).
get_filtered_sorted_df(vcache, rcache, nobj, c, t, sc, so, sq) ==
    LET key == <<c, t, sc, so, sq>>
    IN IF lru_hit(vcache, key)
       THEN [ok |-> TRUE, ret |-> vcache[lru_value(vcache, key)].val,
             view |-> lru_touch(vcache, key), raw |-> rcache,
             nobj |-> nobj, ncomp |-> 0, rawcall |-> FALSE,
             rawres |-> [ok |-> FALSE, ret |-> NoDf, cache |-> rcache, nobj |-> nobj, ncomp |-> 0]]
       ELSE LET r == get_df(rcache, nobj, c, t)
            IN IF ~r.ok
               THEN [ok |-> FALSE, ret |-> NoDf, view |-> vcache, raw |-> r.cache,
                     nobj |-> r.nobj, ncomp |-> 1, rawcall |-> TRUE, rawres |-> r]
               ELSE LET b == view_body(r.ret, r.nobj, sc, so, sq)
                    IN [ok |-> b.ok, ret |-> b.ret,
                        view |-> IF b.ok THEN lru_store(vcache, key, b.ret, maxsize_view) ELSE vcache,
                        raw |-> r.cache, nobj |-> b.nobj, ncomp |-> 1, rawcall |-> TRUE,
                        rawres |-> r]

\* The record of a call, kept as history: its key, whether it returned, the
\* identity of the frame returned (0 when it raised) and how often its body
\* ran.
LogOf(key, ok, ret, ncomp) == [key |-> key, ok |-> ok, ret |-> ret.id, ncomp |-> ncomp]

NoLog == [key |-> <<>>, ok |-> FALSE, ret |-> 0, ncomp |-> 0]

\* No function is being applied on its own.
NoProbe == [fn |-> None]

\* ------------------------------------------------------------ the fit

\* dist_names of on_best_fitted_distribution._worker, in catalogue order.
dist_names == <<"norm", "expon", "pareto", "lognorm", "gamma", "beta", "uniform", "dweibull">>

\* Whether getattr(st, d).fit(data) raises on the values of a column: the
\* beta fit does not converge on the two values of T2.val; where the
\* candidates that raise are chosen beforehand, those do.
FitRaises(tab, col, d) ==
    \/ tab = "T2" /\ col = "val" /\ d = "beta"
    \/ probe.fn = "raises" /\ d \in probe.raises

\* aic = 2 * len(params) - 2 * ll of a candidate on the values of a column.
FitAic(tab, col, d) ==
    CASE d = "norm" -> 7
      [] d = "expon" -> 9
      [] d = "pareto" -> 9
      [] d = "lognorm" -> 5
      [] d = "gamma" -> 5
      [] d = "beta" -> 6
      [] d = "uniform" -> 5
      [] OTHER -> 8

\* best_dist, best_params, best_aic = None, None, np.inf
NoBest == [dist |-> None, aic |-> 0, inf |-> TRUE]

\* A comparison that lets a candidate of equal AIC replace the best.
FitStepLastWins(best, d, aic) ==
    IF best.inf \/ aic <= best.aic THEN [dist |-> d, aic |-> aic, inf |-> FALSE] ELSE best

\* if aic < best_aic: best_aic, best_dist, best_params = aic, dist_name, params
FitStep(best, d, aic) ==
    IF best.inf \/ aic < best.aic THEN [dist |-> d, aic |-> aic, inf |-> FALSE] ELSE best

\* A loop that goes on with the next candidate when a fit raises.
RECURSIVE FitLoopSkipping(_, _, _, _)
FitLoopSkipping(tab, col, k, best) ==
    IF k > Len(dist_names) THEN [ok |-> TRUE, best |-> best]
    ELSE FitLoopSkipping(tab, col, k + 1,
                         IF FitRaises(tab, col, dist_names[k]) THEN best
                         ELSE FitStep(best, dist_names[k], FitAic(tab, col, dist_names[k])))

\* The loop over dist_names from candidate k on: the best found, or
\* ok = FALSE when a fit raised (the loop is left by the exception).
RECURSIVE FitLoop(_, _, _, _)
FitLoop(tab, col, k, best) ==
    IF k > Len(dist_names) THEN [ok |-> TRUE, best |-> best]
    ELSE IF FitRaises(tab, col, dist_names[k]) THEN [ok |-> FALSE, best |-> best]
    ELSE FitLoop(tab, col, k + 1,
                 FitStep(best, dist_names[k], FitAic(tab, col, dist_names[k])))

\* ------------------------------------------------------------ the tasks

\* A worker thread: the arguments load_table_data (or the fit) closed over,
\* where the thread is (pc), how it ended (outcome), its locals, the
\* CallAfter events it posted, and its grace timer; conn is history: self.db
\* when the task was submitted.
\*   pc of a load:  "start" -> "locked" -> "computed" -> "exit" -> "end"
\*   pc of a fit:   "start" -> "end"
NewLoad(c, t, pn, ps, sc, so, sq, st) ==
    [kind |-> "load", table |-> t, page_number |-> pn, page_size |-> ps,
     sort_column |-> sc, sort_order |-> so, search_query |-> sq, set_status |-> st,
     pc |-> "start", outcome |-> "none", df |-> NoDf, rows |-> <<>>, conn |-> c,
     posts |-> <<>>, timer |-> "armed"]

NewFit(df, col) ==
    [kind |-> "fit", table |-> df.tab, page_number |-> 0, page_size |-> 0,
     sort_column |-> col, sort_order |-> FALSE, search_query |-> NoQuery, set_status |-> FALSE,
     pc |-> "start", outcome |-> "none", df |-> df, rows |-> <<>>, conn |-> 0,
     posts |-> <<>>, timer |-> "armed"]

\* A thread that has ended: its arguments and locals are gone.
Ended(t, outcome, posts) ==
    [kind |-> t.kind, table |-> None, page_number |-> 0, page_size |-> 0,
     sort_column |-> None, sort_order |-> FALSE, search_query |-> NoQuery, set_status |-> FALSE,
     pc |-> "end", outcome |-> outcome, df |-> NoDf, rows |-> <<>>, conn |-> 0,
     posts |-> posts, timer |-> t.timer]

Tasks == 1..Len(tasks)

\* thread.is_alive()
is_alive(w) == tasks[w].pc # "end"

\* Whether the control thread is free to handle an event: it is not inside
\* progress_dialog's loop.
ControlFree == dialog = 0

\* The tables self.column_attr may have an entry for.
AllTables == {"T1", "T2", "CSV file", "No database loaded"}

NoAttr == [has |-> FALSE, col_order |-> FALSE, col_widths |-> <<>>]

NoColumnAttr == [current_table |-> None, saved |-> [t \in AllTables |-> NoAttr]]

EmptyList == [cols |-> <<>>, rows |-> <<>>, req |-> 0]

\* The reset without the disabling of the next-page button.
ResetEventsNoDisable(w, text) ==
    << [type |-> "ClearAll", req |-> w, arg |-> <<>>],
       [type |-> "MessageBox", req |-> w, arg |-> <<text>>],
       [type |-> "SetStatusText", req |-> w, arg |-> <<text>>] >>

\* The four events of the error and the no-data path.
ResetEvents(w, text) ==
    << [type |-> "ClearAll", req |-> w, arg |-> <<>>],
       [type |-> "Enable", req |-> w, arg |-> <<FALSE>>],
       [type |-> "MessageBox", req |-> w, arg |-> <<text>>],
       [type |-> "SetStatusText", req |-> w, arg |-> <<text>>] >>

EventTypes(evs) == [k \in 1..Len(evs) |-> evs[k].type]

\* The threads started in a run: one more in the long session.
TaskBound == IF probe.fn = "long" THEN MaxTasks + 1 ELSE MaxTasks

TypeOK ==
    /\ db \in 0..Len(conns)
    /\ lock \in 0..Len(tasks)
    /\ dialog \in 0..Len(tasks)
    /\ Len(tasks) <= TaskBound
    /\ ignore_filters \in BOOLEAN
    /\ next_enabled \in BOOLEAN

Init ==
    /\ conns = <<>>
    /\ db = 0
    /\ dfCache = NoEntry
    /\ viewCache = NoEntry
    /\ nObj = 0
    /\ current_page = 1
    /\ total_pages = 0
    /\ sort_column = None
    /\ sort_order = FALSE
    /\ search_query = NoQuery
    /\ items_per_page = DefaultItemsPerPage
    /\ table_switcher = [items |-> <<"No database loaded">>, sel |-> "No database loaded"]
    /\ list_ctrl = EmptyList
    /\ sort_indicator = <<>>
    /\ next_enabled = FALSE
    /\ status = <<"">>
    /\ column_attr = NoColumnAttr
    /\ ignore_filters = TRUE
    /\ plots = {}
    /\ queue = <<>>
    /\ tasks = <<>>
    /\ lock = 0
    /\ dialog = 0
    /\ rawLog = NoLog
    /\ viewLog = NoLog
    /\ probe = NoProbe

\* ------------------------------------------------------ variable groups

connVars == <<conns, db>>
cacheVars == <<dfCache, viewCache, nObj, rawLog, viewLog>>
specVars == <<current_page, sort_column, sort_order, search_query, items_per_page, table_switcher>>
widgetVars == <<list_ctrl, next_enabled, status, plots>>

\* ------------------------------------------------------ the load worker

\* The primed caches and call histories after the call
\* c.get_filtered_sorted_df(t, sc, so, sq) with result r.
ApplyView(c, t, sc, so, sq, r) ==
    /\ dfCache' = r.raw
    /\ viewCache' = r.view
    /\ nObj' = r.nobj
    /\ viewLog' = LogOf(<<c, t, sc, so, sq>>, r.ok, r.ret, r.ncomp)
    /\ rawLog' = IF r.rawcall
                 THEN LogOf(<<c, t>>, r.rawres.ok, r.rawres.ret, r.rawres.ncomp)
                 ELSE rawLog

\* A lock that lets every thread in.
CanAcquireAlways(w) == TRUE

\* threading.Lock.acquire: the lock is free.
CanAcquire(w) == lock = 0

\* with self.list_ctrl_lock: the worker enters when it gets the lock.  The
\* lock hands itself to any waiting thread, not to the oldest.
W_Acquire(w) ==
    /\ w \in Tasks
    /\ tasks[w].kind = "load"
    /\ tasks[w].pc = "start"
    /\ CanAcquire(w)
    /\ lock' = w
    /\ tasks' = [tasks EXCEPT ![w].pc = "locked"]
    /\ UNCHANGED <<probe, connVars, cacheVars, specVars, total_pages, widgetVars, sort_indicator,
                   column_attr, ignore_filters, queue, dialog>>

\* save_column_attr, run by the worker: it reads the list's columns.
save_column_attr(t) ==
    LET previous_table == column_attr.current_table
    IN [current_table |-> t,
        saved |-> IF previous_table # None
                  THEN [column_attr.saved EXCEPT ![previous_table] =
                           [has |-> TRUE, col_order |-> list_ctrl.cols # <<>>,
                            col_widths |-> list_ctrl.cols]]
                  ELSE column_attr.saved]

\* The 0-based index of column c in a frame's columns.
ColumnIndex(cols, c) == (CHOOSE k \in 1..Len(cols) : cols[k] = c) - 1

\* Lines 414-427: save_column_attr, then the try block.  The view is asked
\* of self.db as it is when the worker runs.  When the block raises, the
\* worker posts the four reset events and re-raises.
W_Compute(w) ==
    /\ w \in Tasks
    /\ tasks[w].pc = "locked"
    /\ \E r \in {get_filtered_sorted_df(viewCache, dfCache, nObj, db, tasks[w].table,
                                         tasks[w].sort_column, tasks[w].sort_order,
                                         tasks[w].search_query)} :
       LET t == tasks[w]
           offset == (t.page_number - 1) * t.page_size
           rows == Slice(r.ret.rows, offset, t.page_size)
       IN /\ column_attr' = save_column_attr(t.table)
          /\ ApplyView(db, t.table, t.sort_column, t.sort_order, t.search_query, r)
          /\ IF r.ok
             THEN /\ sort_indicator' = IF t.sort_column # None
                                       THEN <<ColumnIndex(DfColumns(r.ret.tab), t.sort_column), t.sort_order>>
                                       ELSE <<>>
                  /\ tasks' = [tasks EXCEPT ![w].pc = "computed", ![w].df = r.ret,
                                            ![w].rows = rows]
                  /\ UNCHANGED queue
             ELSE /\ queue' = queue \o ResetEvents(w, "Error opening table")
                  /\ tasks' = [tasks EXCEPT ![w].pc = "exit", ![w].outcome = "error",
                                            ![w].posts = EventTypes(ResetEvents(w, "Error opening table"))]
                  /\ UNCHANGED sort_indicator
    /\ UNCHANGED <<probe, connVars, specVars, total_pages, widgetVars, ignore_filters, lock, dialog>>

\* The events of lines 438-439.
DisplayEvents(w, t, total_rows, pages) ==
    << [type |-> "display_table", req |-> w,
        arg |-> <<t.table, t.rows, DfColumns(t.df.tab)>>] >>
    \o (IF t.set_status
        THEN << [type |-> "SetStatusText", req |-> w,
                 arg |-> <<"Showing table">>] >>
        ELSE <<>>)

\* Lines 429-439: the no-data path, or the page count, the next-page button
\* (both written by the worker itself) and the display events.
W_Finish(w) ==
    /\ w \in Tasks
    /\ tasks[w].pc = "computed"
    /\ LET t == tasks[w]
           total_rows == Len(t.df.rows)
           pages == CeilDiv(total_rows, t.page_size)
       IN IF t.rows = <<>>
          THEN /\ queue' = queue \o ResetEvents(w, "No data found in table")
               /\ tasks' = [tasks EXCEPT ![w].pc = "exit", ![w].outcome = "nodata",
                                         ![w].posts = EventTypes(ResetEvents(w, "No data found in table"))]
               /\ UNCHANGED <<total_pages, next_enabled>>
          ELSE /\ total_pages' = pages
               /\ next_enabled' = (pages > 1)
               /\ queue' = queue \o DisplayEvents(w, t, total_rows, pages)
               /\ tasks' = [tasks EXCEPT ![w].pc = "exit", ![w].outcome = "display",
                                         ![w].posts = EventTypes(DisplayEvents(w, t, total_rows, pages))]
    /\ UNCHANGED <<probe, connVars, cacheVars, specVars, list_ctrl, status, plots,
                   sort_indicator, column_attr, ignore_filters, lock, dialog>>

\* A lock taken and released by hand, without try/finally: the re-raised
\* exception leaves it held.
W_ReleaseOnReturn(w) ==
    /\ w \in Tasks
    /\ tasks[w].pc = "exit"
    /\ lock' = IF lock = w /\ tasks[w].outcome # "error" THEN 0 ELSE lock
    /\ tasks' = [tasks EXCEPT ![w] = Ended(tasks[w], tasks[w].outcome, tasks[w].posts)]
    /\ UNCHANGED <<probe, connVars, cacheVars, specVars, total_pages, widgetVars, sort_indicator,
                   column_attr, ignore_filters, queue, dialog>>

\* Leaving the with block, by return or by the re-raised exception,
\* releases the lock; the thread ends.
W_Release(w) ==
    /\ w \in Tasks
    /\ tasks[w].pc = "exit"
    /\ lock' = IF lock = w THEN 0 ELSE lock
    /\ tasks' = [tasks EXCEPT ![w] = Ended(tasks[w], tasks[w].outcome, tasks[w].posts)]
    /\ UNCHANGED <<probe, connVars, cacheVars, specVars, total_pages, widgetVars, sort_indicator,
                   column_attr, ignore_filters, queue, dialog>>

\* ------------------------------------------------------- the fit worker

\* A fit worker that runs inside list_ctrl_lock, as the load worker does.
F_RunUnderLock(w) ==
    /\ w \in Tasks
    /\ tasks[w].kind = "fit"
    /\ tasks[w].pc = "start"
    /\ lock = 0
    /\ \E r \in {FitLoop(tasks[w].df.tab, tasks[w].sort_column, 1, NoBest)} :
       LET t == tasks[w]
           ev == IF r.ok
                 THEN [type |-> "show_fit", req |-> w, arg |-> <<r.best.dist>>]
                 ELSE [type |-> "MessageBox", req |-> w,
                       arg |-> <<"Error finding best fitted distribution">>]
       IN /\ queue' = Append(queue, ev)
          /\ tasks' = [tasks EXCEPT ![w] = Ended(t, IF r.ok THEN "fit" ELSE "error", <<ev.type>>)]
    /\ UNCHANGED <<probe, connVars, cacheVars, specVars, total_pages, widgetVars, sort_indicator,
                   column_attr, ignore_filters, lock, dialog>>

\* on_best_fitted_distribution._worker: the loop over the candidates, then
\* the plot event; or, when a fit raises, the error message and the
\* re-raise.  It takes no lock.
F_Run(w) ==
    /\ w \in Tasks
    /\ tasks[w].kind = "fit"
    /\ tasks[w].pc = "start"
    /\ \E r \in {FitLoop(tasks[w].df.tab, tasks[w].sort_column, 1, NoBest)} :
       LET t == tasks[w]
           ev == IF r.ok
                 THEN [type |-> "show_fit", req |-> w, arg |-> <<r.best.dist>>]
                 ELSE [type |-> "MessageBox", req |-> w,
                       arg |-> <<"Error finding best fitted distribution">>]
       IN /\ queue' = Append(queue, ev)
          /\ tasks' = [tasks EXCEPT ![w] = Ended(t, IF r.ok THEN "fit" ELSE "error", <<ev.type>>)]
    /\ UNCHANGED <<probe, connVars, cacheVars, specVars, total_pages, widgetVars, sort_indicator,
                   column_attr, ignore_filters, lock, dialog>>

\* --------------------------------------------- the control thread: events

\* A display_table that drops the rows of a request older than the one shown.
display_table_if_newer(ev) ==
    IF ev.req < list_ctrl.req THEN list_ctrl
    ELSE [cols |-> ev.arg[3], rows |-> ev.arg[2], req |-> ev.req]

\* display_table(table_name, rows, columns): the list is cleared and filled
\* with the columns and the rows.
display_table(ev) == [cols |-> ev.arg[3], rows |-> ev.arg[2], req |-> ev.req]

\* The control thread runs the oldest wx.CallAfter event.
Dispatch ==
    /\ queue # <<>>
    /\ LET ev == Head(queue)
       IN /\ queue' = Tail(queue)
          /\ list_ctrl' =
                CASE ev.type = "ClearAll" -> [cols |-> <<>>, rows |-> <<>>, req |-> ev.req]
                  [] ev.type = "display_table" -> display_table(ev)
                  [] OTHER -> list_ctrl
          /\ next_enabled' = IF ev.type = "Enable" THEN ev.arg[1] ELSE next_enabled
          /\ status' = IF ev.type = "SetStatusText" THEN ev.arg ELSE status
          /\ plots' = IF ev.type = "show_fit" THEN plots \cup {[req |-> ev.req, dist |-> ev.arg[1]]} ELSE plots
    /\ UNCHANGED <<probe, connVars, cacheVars, specVars, total_pages, sort_indicator, column_attr,
                   ignore_filters, tasks, lock, dialog>>

\* A progress_dialog without the test for threads of the same name.
SameNameAliveUntested(w) == FALSE

\* progress_dialog's test: another live thread has the same name.
SameNameAlive(w) ==
    \E v \in Tasks : v # w /\ tasks[v].kind = tasks[w].kind /\ is_alive(v)

\* A timer whose callback does not ask thread.is_alive().
TimerFireUnasked(w) ==
    /\ ControlFree
    /\ w \in Tasks
    /\ tasks[w].timer = "armed"
    /\ tasks' = [tasks EXCEPT ![w].timer = "fired"]
    /\ dialog' = IF ~SameNameAlive(w) THEN w ELSE dialog
    /\ UNCHANGED <<probe, connVars, cacheVars, specVars, total_pages, widgetVars, sort_indicator,
                   column_attr, ignore_filters, queue, lock>>

\* The wx.CallLater(600, ...) of a task fires: when the worker is alive and
\* no other live thread has its name, the control thread opens the progress
\* dialog and pulses it while the worker is alive.
TimerFire(w) ==
    /\ ControlFree
    /\ w \in Tasks
    /\ tasks[w].timer = "armed"
    /\ tasks' = [tasks EXCEPT ![w].timer = "fired"]
    /\ dialog' = IF is_alive(w) /\ ~SameNameAlive(w) THEN w ELSE dialog
    /\ UNCHANGED <<probe, connVars, cacheVars, specVars, total_pages, widgetVars, sort_indicator,
                   column_attr, ignore_filters, queue, lock>>

\* The pulse loop ends when the worker is dead; the dialog is destroyed.
DialogClose ==
    /\ dialog # 0
    /\ ~is_alive(dialog)
    /\ dialog' = 0
    /\ UNCHANGED <<probe, connVars, cacheVars, specVars, total_pages, widgetVars, sort_indicator,
                   column_attr, ignore_filters, queue, tasks, lock>>

\* ---------------------------------------- the control thread: handlers

\* load_table_data: the worker thread is started and its grace timer set.
\* c is self.db as the handler leaves it.
load_table_data(c, t, pn, ps, sc, so, sq, st) ==
    tasks' = Append(tasks, NewLoad(c, t, pn, ps, sc, so, sq, st))

\* Whether one more thread may be started within the model's bound.
MayStart == Len(tasks) < TaskBound

\* A load_database_file that assigns self.db before it asks for the names.
OpenFileAssigningFirst(f) ==
    /\ ControlFree
    /\ LET names == get_table_or_sheet_names(f)
       IN IF names = <<"Raise">> \/ names = <<>>
          THEN /\ conns' = Append(conns, f)
               /\ db' = Len(conns) + 1
               /\ UNCHANGED <<specVars, total_pages, status, column_attr, tasks>>
          ELSE /\ MayStart
               /\ conns' = Append(conns, f)
               /\ db' = Len(conns) + 1
               /\ table_switcher' = [items |-> names, sel |-> names[1]]
               /\ column_attr' = NoColumnAttr
               /\ status' = <<"Processing...">>
               /\ search_query' = NoQuery
               /\ current_page' = 1
               /\ total_pages' = 0
               /\ sort_column' = None
               /\ sort_order' = FALSE
               /\ load_table_data(Len(conns) + 1, names[1], 1, items_per_page, None, FALSE, NoQuery, TRUE)
               /\ UNCHANGED items_per_page
    /\ UNCHANGED <<cacheVars, list_ctrl, next_enabled, plots, sort_indicator, ignore_filters,
                   queue, lock, dialog>>

\* load_database_file(f).  get_table_or_sheet_names raises for an extension
\* that is not supported: the message is shown and the handler is left by
\* the exception.  A file without tables leaves the session as it is, too.
\* Otherwise the connection replaces self.db, the state is reset and the
\* first table is loaded.
OpenFileSteps(f) ==
    /\ ControlFree
    /\ LET names == get_table_or_sheet_names(f)
       IN IF names = <<"Raise">> \/ names = <<>>
          THEN UNCHANGED <<connVars, specVars, total_pages, status, column_attr, tasks>>
          ELSE /\ MayStart
               /\ conns' = Append(conns, f)
               /\ db' = Len(conns) + 1
               /\ table_switcher' = [items |-> names, sel |-> names[1]]
               /\ column_attr' = NoColumnAttr
               /\ status' = <<"Processing...">>
               /\ search_query' = NoQuery
               /\ current_page' = 1
               /\ total_pages' = 0
               /\ sort_column' = None
               /\ sort_order' = FALSE
               /\ load_table_data(Len(conns) + 1, names[1], 1, items_per_page, None, FALSE, NoQuery, TRUE)
               /\ UNCHANGED items_per_page
    /\ UNCHANGED <<cacheVars, list_ctrl, next_enabled, plots, sort_indicator, ignore_filters,
                   queue, lock, dialog>>

OpenFile(f) == OpenFileSteps(f) /\ UNCHANGED probe

\* An on_switch_table that gives up the loads still waiting for the lock.
on_switch_table_cancelling(t) ==
    /\ ControlFree
    /\ db # 0
    /\ MayStart
    /\ t \in SeqToSet(table_switcher.items)
    /\ table_switcher' = [table_switcher EXCEPT !.sel = t]
    /\ status' = <<"Processing...">>
    /\ search_query' = NoQuery
    /\ current_page' = 1
    /\ total_pages' = 0
    /\ sort_column' = None
    /\ sort_order' = FALSE
    /\ tasks' = Append([w \in Tasks |-> IF tasks[w].pc = "start"
                                        THEN Ended(tasks[w], "cancelled", <<>>)
                                        ELSE tasks[w]],
                       NewLoad(db, t, 1, items_per_page, None, FALSE, NoQuery, TRUE))
    /\ UNCHANGED <<probe, connVars, cacheVars, items_per_page, list_ctrl, next_enabled, plots,
                   sort_indicator, column_attr, ignore_filters, queue, lock, dialog>>

\* on_switch_table after the user chose item t: reset_state, then the load.
on_switch_table(t) ==
    /\ ControlFree
    /\ db # 0
    /\ MayStart
    /\ t \in SeqToSet(table_switcher.items)
    /\ table_switcher' = [table_switcher EXCEPT !.sel = t]
    /\ status' = <<"Processing...">>
    /\ search_query' = NoQuery
    /\ current_page' = 1
    /\ total_pages' = 0
    /\ sort_column' = None
    /\ sort_order' = FALSE
    /\ load_table_data(db, t, 1, items_per_page, None, FALSE, NoQuery, TRUE)
    /\ UNCHANGED <<probe, connVars, cacheVars, items_per_page, list_ctrl, next_enabled, plots,
                   sort_indicator, column_attr, ignore_filters, queue, lock, dialog>>

\* A click that only toggles the order of the current sort column.
ClickColumnToggling(c) ==
    IF sort_column = c
    THEN [sort_column |-> sort_column, sort_order |-> ~sort_order]
    ELSE [sort_column |-> c, sort_order |-> TRUE]

\* The sort state after a click on column c.
ClickColumn(c) ==
    IF sort_column = c
    THEN [sort_column |-> IF ~sort_order THEN None ELSE sort_column, sort_order |-> FALSE]
    ELSE [sort_column |-> c, sort_order |-> TRUE]

\* on_column_click on a column the list shows.
on_column_click(c) ==
    /\ ControlFree
    /\ MayStart
    /\ c \in SeqToSet(list_ctrl.cols)
    /\ LET n == ClickColumn(c)
       IN /\ sort_column' = n.sort_column
          /\ sort_order' = n.sort_order
          /\ current_page' = 1
          /\ load_table_data(db, table_switcher.sel, 1, items_per_page, n.sort_column, n.sort_order,
                             search_query, FALSE)
          /\ status' = IF n.sort_column # None
                       THEN <<"Sorted table by column">>
                       ELSE <<"Restored original table order">>
    /\ UNCHANGED <<probe, connVars, cacheVars, search_query, items_per_page, table_switcher, total_pages,
                   list_ctrl, next_enabled, plots, sort_indicator, column_attr,
                   ignore_filters, queue, lock, dialog>>

\* on_search with q typed into the search control.
on_search(q) ==
    /\ ControlFree
    /\ db # 0
    /\ q # NoQuery
    /\ MayStart
    /\ current_page' = 1
    /\ search_query' = q
    /\ load_table_data(db, table_switcher.sel, 1, items_per_page, sort_column, sort_order, q, TRUE)
    /\ UNCHANGED <<probe, connVars, cacheVars, sort_column, sort_order, items_per_page, table_switcher,
                   total_pages, widgetVars, sort_indicator, column_attr, ignore_filters, queue,
                   lock, dialog>>

\* on_search_cancel
on_search_cancel ==
    /\ ControlFree
    /\ db # 0
    /\ MayStart
    /\ search_query' = NoQuery
    /\ current_page' = 1
    /\ load_table_data(db, table_switcher.sel, 1, items_per_page, sort_column, sort_order, NoQuery, TRUE)
    /\ UNCHANGED <<probe, connVars, cacheVars, sort_column, sort_order, items_per_page, table_switcher,
                   total_pages, widgetVars, sort_indicator, column_attr, ignore_filters, queue,
                   lock, dialog>>

\* A page change that does not wrap.
NextPageNoWrap(page, pages, backward) == IF backward THEN page - 1 ELSE page + 1

\* The page on_page_change moves to.
NextPage(page, pages, backward) == ((IF backward THEN page - 2 ELSE page) % pages) + 1

\* on_page_change from the View menu (wx.ID_BACKWARD, wx.ID_FORWARD) or,
\* when it is enabled, from the next-page button (forward).
on_page_change(backward) ==
    /\ ControlFree
    /\ db # 0
    /\ total_pages > 1
    /\ MayStart
    /\ current_page' = NextPage(current_page, total_pages, backward)
    /\ load_table_data(db, table_switcher.sel, current_page', items_per_page, sort_column, sort_order,
                       search_query, TRUE)
    /\ UNCHANGED <<probe, connVars, cacheVars, sort_column, sort_order, search_query, items_per_page,
                   table_switcher, total_pages, widgetVars, sort_indicator, column_attr,
                   ignore_filters, queue, lock, dialog>>

\* on_set_items_per_page with menu item p.
on_set_items_per_page(p) ==
    /\ ControlFree
    /\ items_per_page' = p
    /\ IF db # 0 /\ list_ctrl.cols # <<>>
       THEN /\ MayStart
            /\ current_page' = 1
            /\ load_table_data(db, table_switcher.sel, 1, p, sort_column, sort_order, search_query, TRUE)
       ELSE UNCHANGED <<current_page, tasks>>
    /\ UNCHANGED <<probe, connVars, cacheVars, sort_column, sort_order, search_query, table_switcher,
                   total_pages, widgetVars, sort_indicator, column_attr, ignore_filters, queue,
                   lock, dialog>>

\* min_data_count of the best-fitted-distribution menu entry.
MinDataCount == 10

\* len(df[col].dropna()): the values the fit is made on.
NonMissing(df, c) == Cardinality({k \in 1..Len(df.rows) : ~IsNa(df.tab, df.rows[k], c)})

\* df[col].isna().sum() == len(df)
AllNa(df, c) == \A k \in 1..Len(df.rows) : IsNa(df.tab, df.rows[k], c)

\* The columns show_column_selection_dialog offers for valid_dtypes
\* ["number"]: those of the list, in its order, that are numeric columns of
\* the frame and not missing throughout.
OfferedColumns(df) ==
    SelectSeq(list_ctrl.cols,
              LAMBDA c : c \in SeqToSet(DfColumns(df.tab)) /\ IsNumeric(df.tab, c) /\ ~AllNa(df, c))

\* What the handler of the "Best fitted distribution" entry does when the
\* user picks `choice` in the column dialog ("Cancel" closes it) and leaves
\* its check box at `flag`: the caches, object count and call histories
\* afterwards, the message shown (None: none), whether the check box was
\* reached, and the frame a fit is started on (NoDf: none).  An exception of
\* get_df or get_filtered_sorted_df leaves the handler.
FitRequest(choice, flag) ==
    LET sel == table_switcher.sel
        same == [raw |-> dfCache, view |-> viewCache, nobj |-> nObj, rlog |-> rawLog,
                 vlog |-> viewLog, msg |-> None, flag |-> ignore_filters, df |-> NoDf]
        r1 == get_df(dfCache, nObj, db, sel)
        log1 == LogOf(<<db, sel>>, r1.ok, r1.ret, r1.ncomp)
        after1 == [same EXCEPT !.raw = r1.cache, !.nobj = r1.nobj, !.rlog = log1]
        r2 == get_filtered_sorted_df(viewCache, r1.cache, r1.nobj, db, sel,
                                     sort_column, sort_order, search_query)
        after2 == [after1 EXCEPT
                     !.raw = r2.raw, !.view = r2.view, !.nobj = r2.nobj, !.flag = flag,
                     !.vlog = LogOf(<<db, sel, sort_column, sort_order, search_query>>,
                                    r2.ok, r2.ret, r2.ncomp),
                     !.rlog = IF r2.rawcall
                              THEN LogOf(<<db, sel>>, r2.rawres.ok, r2.rawres.ret, r2.rawres.ncomp)
                              ELSE log1]
        Started(at, df) ==
            IF Len(df.rows) < MinDataCount
            THEN [at EXCEPT !.msg = "Unable to perform operation, not enough rows"]
            ELSE [at EXCEPT !.df = [tab |-> df.tab, rows |-> df.rows, id |-> at.nobj + 1],
                            !.nobj = at.nobj + 1]
    IN IF ~(db # 0 /\ list_ctrl.cols # <<>>)
       THEN [same EXCEPT !.msg = "Unable to perform operation, please load a valid table first"]
       ELSE IF ~r1.ok THEN after1
       ELSE IF Len(OfferedColumns(r1.ret)) < 1
       THEN [after1 EXCEPT !.msg = "Unable to perform operation, no valid column"]
       ELSE IF choice = "Cancel" THEN [after1 EXCEPT !.flag = flag]
       ELSE IF flag THEN Started([after1 EXCEPT !.flag = flag], r1.ret)
       ELSE IF ~r2.ok THEN after2
       ELSE Started(after2, r2.ret)

\* on_data_menu for ID_BEST_FITTED_DISTRIBUTION, show_column_selection_dialog
\* and on_best_fitted_distribution: the fit thread is started on the frame
\* and the chosen column.
on_data_menu(choice, flag) ==
    /\ ControlFree
    /\ \E o \in {FitRequest(choice, flag)} :
          /\ choice = "Cancel" \/ (db # 0 /\ choice \in SeqToSet(list_ctrl.cols))
          /\ dfCache' = o.raw
          /\ viewCache' = o.view
          /\ nObj' = o.nobj
          /\ rawLog' = o.rlog
          /\ viewLog' = o.vlog
          /\ ignore_filters' = o.flag
          /\ IF o.df # NoDf
             THEN /\ MayStart
                  /\ choice \in SeqToSet(OfferedColumns(o.df))
                  /\ tasks' = Append(tasks, NewFit(o.df, choice))
             ELSE UNCHANGED tasks
    /\ UNCHANGED <<probe, connVars, specVars, total_pages, list_ctrl, next_enabled, status, plots,
                   sort_indicator, column_attr, queue, lock, dialog>>

\* ------------------------------------------------------ the specification

\* A step of the load worker w, and a step of any worker.
LoadWorkerStep(w) == W_Acquire(w) \/ W_Compute(w) \/ W_Finish(w) \/ W_Release(w)

WorkerStep(w) == LoadWorkerStep(w) \/ F_Run(w)

\* The handlers that submit loads.
LoadUserStep ==
    \/ \E f \in Files : OpenFile(f)
    \/ \E t \in AllTables : on_switch_table(t)
    \/ \E c \in {"id", "name", "val"} : on_column_click(c)
    \/ \E q \in Queries : on_search(q)
    \/ on_search_cancel
    \/ \E b \in BOOLEAN : on_page_change(b)
    \/ \E p \in ItemsPerPageOptions : on_set_items_per_page(p)

UserStep ==
    \/ LoadUserStep
    \/ \E c \in {"id", "val", "Cancel"}, flag \in BOOLEAN : on_data_menu(c, flag)

Next ==
    \/ UserStep
    \/ Dispatch
    \/ DialogClose
    \/ \E w \in 1..MaxTasks : TimerFire(w)
    \/ \E w \in 1..MaxTasks : WorkerStep(w)

\* The whole program.
Spec == Init /\ [][Next]_vars

\* The loads alone: the handlers that submit them, their workers and the
\* events they post.  The grace timers and the progress dialog take no part
\* in a load; they only hold the control thread back.
LoadNext ==
    \/ LoadUserStep
    \/ Dispatch
    \/ \E w \in 1..MaxTasks : LoadWorkerStep(w)

LoadSpec == Init /\ [][LoadNext]_vars

\* Loads and fits, without the grace timers.
WorkNext ==
    \/ UserStep
    \/ Dispatch
    \/ \E w \in 1..MaxTasks : WorkerStep(w)

WorkSpec == Init /\ [][WorkNext]_vars

\* A step of a load worker or of the control thread's event loop, and a
\* step of any worker or of the event loop.
LoadProgress == Dispatch \/ \E w \in 1..MaxTasks : LoadWorkerStep(w)

WorkProgress == Dispatch \/ \E w \in 1..MaxTasks : WorkerStep(w)

\* Fair scheduling: while a worker can run or an event is pending, one of
\* them gets its turn.  This asks less of the scheduler than a turn for
\* each thread.
FairLoadSpec == Init /\ [][LoadNext]_vars /\ WF_vars(LoadProgress)

FairWorkSpec == Init /\ [][WorkNext]_vars /\ WF_vars(WorkProgress)

\* The tasks, their grace timers and the progress dialog: files are opened,
\* tables switched and fits requested; the loads and fits run, their timers
\* fire and their events are run.
DialogNext ==
    \/ \E f \in Files : OpenFile(f)
    \/ \E t \in AllTables : on_switch_table(t)
    \/ \E c \in {"id", "val", "Cancel"}, flag \in BOOLEAN : on_data_menu(c, flag)
    \/ Dispatch
    \/ DialogClose
    \/ \E w \in 1..MaxTasks : TimerFire(w)
    \/ \E w \in 1..MaxTasks : WorkerStep(w)

DialogSpec == Init /\ [][DialogNext]_vars

\* ------------------------------------- DataframeConnection on its own

\* The bound of the calls below: the frames built.
MaxObjects == 3

\* The files connections are made to, in the order they are made.
SessionFiles == <<"a.db", "a.db", "b.csv">>

\* DataframeConnection(db_file=...): a further connection object.
Connect ==
    /\ Len(conns) < Len(SessionFiles)
    /\ conns' = Append(conns, SessionFiles[Len(conns) + 1])
    /\ UNCHANGED <<probe, db, cacheVars, specVars, total_pages, widgetVars, sort_indicator, column_attr,
                   ignore_filters, queue, tasks, lock, dialog>>

\* A call c.get_df(t) of connection c.
CallGetDf(c, t) ==
    /\ c \in 1..Len(conns)
    /\ nObj < MaxObjects
    /\ \E r \in {get_df(dfCache, nObj, c, t)} :
          /\ dfCache' = r.cache
          /\ nObj' = r.nobj
          /\ rawLog' = LogOf(<<c, t>>, r.ok, r.ret, r.ncomp)
    /\ UNCHANGED <<probe, connVars, viewCache, viewLog, specVars, total_pages, widgetVars, sort_indicator,
                   column_attr, ignore_filters, queue, tasks, lock, dialog>>

\* A call c.get_filtered_sorted_df(t, sc, so, sq) of connection c.
CallGetView(c, t, sc, so, sq) ==
    /\ c \in 1..Len(conns)
    /\ nObj < MaxObjects
    /\ \E r \in {get_filtered_sorted_df(viewCache, dfCache, nObj, c, t, sc, so, sq)} :
          ApplyView(c, t, sc, so, sq, r)
    /\ UNCHANGED <<probe, connVars, specVars, total_pages, widgetVars, sort_indicator,
                   column_attr, ignore_filters, queue, tasks, lock, dialog>>

\* The sort_column and sort_order the calls are made with.
SortChoices == {<<None, FALSE>>, <<"id", TRUE>>, <<"val", FALSE>>}

CacheNext ==
    \/ Connect
    \/ \E c \in 1..Len(SessionFiles), t \in {"T1", "T2"} : CallGetDf(c, t)
    \/ \E c \in 1..Len(SessionFiles), t \in {"T1", "T2"}, sort \in SortChoices, sq \in {NoQuery, <<98>>} :
          CallGetView(c, t, sort[1], sort[2], sq)

\* The calls of DataframeConnection's methods, in any order, on any
\* connection.
CacheSpec == Init /\ [][CacheNext]_vars

\* ------------------------- two keys requested in alternation: A, B, A, B

\* The bound of the alternation: the requests made.
MaxCalls == 4

\* The keys of get_df and of get_filtered_sorted_df (self first).
RawKeys == {<<c, t>> : c \in 1..Len(SessionFiles), t \in {"T1", "T2"}}
ViewKeys ==
    {<<c, t, sort[1], sort[2], sq>> :
        c \in 1..Len(SessionFiles), t \in {"T1", "T2"}, sort \in SortChoices,
        sq \in {NoQuery, <<98>>}}

\* What a session without a load under way and with nothing displayed has
\* in common: the state of __init__ but for the connections, the pages, the
\* table choice and the tasks.
Idle ==
    /\ dfCache = NoEntry /\ viewCache = NoEntry /\ nObj = 0
    /\ sort_column = None /\ sort_order = FALSE /\ search_query = NoQuery
    /\ items_per_page = DefaultItemsPerPage
    /\ list_ctrl = EmptyList /\ sort_indicator = <<>> /\ next_enabled = FALSE
    /\ status = <<"">> /\ column_attr = NoColumnAttr /\ ignore_filters = TRUE
    /\ plots = {} /\ queue = <<>> /\ lock = 0 /\ dialog = 0
    /\ rawLog = NoLog /\ viewLog = NoLog

\* The connections exist, the caches are empty, and two distinct keys of one
\* of the cached methods are chosen.
AltInit ==
    /\ Idle
    /\ conns = SessionFiles
    /\ db = 0
    /\ current_page = 1 /\ total_pages = 0
    /\ table_switcher = [items |-> <<"No database loaded">>, sel |-> "No database loaded"]
    /\ tasks = <<>>
    /\ \/ \E A, B \in RawKeys :
             A # B /\ probe = [fn |-> "get_df", keys |-> <<A, B>>, calls |-> 0]
       \/ \E A, B \in ViewKeys :
             A # B /\ probe = [fn |-> "get_filtered_sorted_df", keys |-> <<A, B>>, calls |-> 0]

\* The key of the next request: A, B, A, B, ...
AltKey == probe.keys[(probe.calls % 2) + 1]

\* The next get_df of the alternation.
AltGetDf ==
    /\ probe.fn = "get_df"
    /\ probe.calls < MaxCalls
    /\ \E r \in {get_df(dfCache, nObj, AltKey[1], AltKey[2])} :
          /\ dfCache' = r.cache
          /\ nObj' = r.nobj
          /\ rawLog' = LogOf(AltKey, r.ok, r.ret, r.ncomp)
    /\ probe' = [probe EXCEPT !.calls = @ + 1]
    /\ UNCHANGED <<connVars, viewCache, viewLog, specVars, total_pages, widgetVars, sort_indicator,
                   column_attr, ignore_filters, queue, tasks, lock, dialog>>

\* The next get_filtered_sorted_df of the alternation.
AltGetView ==
    /\ probe.fn = "get_filtered_sorted_df"
    /\ probe.calls < MaxCalls
    /\ \E r \in {get_filtered_sorted_df(viewCache, dfCache, nObj, AltKey[1], AltKey[2],
                                         AltKey[3], AltKey[4], AltKey[5])} :
          ApplyView(AltKey[1], AltKey[2], AltKey[3], AltKey[4], AltKey[5], r)
    /\ probe' = [probe EXCEPT !.calls = @ + 1]
    /\ UNCHANGED <<connVars, specVars, total_pages, widgetVars, sort_indicator,
                   column_attr, ignore_filters, queue, tasks, lock, dialog>>

AltNext == AltGetDf \/ AltGetView

\* Requests of one cached method that alternate between two keys.
AltSpec == AltInit /\ [][AltNext]_vars

\* ------------------------------------------------ page navigation alone

\* The bound of the page counts navigated.
MaxPages == 8

\* A database is open, its table has total_pages pages, more than one, and
\* one of them is the current page.
PageInit ==
    /\ Idle
    /\ conns = <<"a.db">>
    /\ db = 1
    /\ table_switcher = [items |-> SqliteTables("a.db"), sel |-> "T1"]
    /\ tasks = <<>>
    /\ probe = NoProbe
    /\ total_pages \in 2..MaxPages
    /\ current_page \in 1..total_pages

PageNext == \E backward \in BOOLEAN : on_page_change(backward)

\* Page changes from any page of any page count.
PageSpec == PageInit /\ [][PageNext]_vars

\* ------------------------------------------------ the pages of one view

\* The bounds of the views paged: their rows and the page sizes.
MaxRows == 5
MaxPageSize == 4

\* The views: the sequences of at most MaxRows rows, of two row values.
Views == UNION {[1..n -> 1..2] : n \in 0..MaxRows}

\* A view and a page size are chosen; no page has been read.
PagesInit ==
    /\ Idle
    /\ conns = <<>>
    /\ db = 0
    /\ current_page = 1 /\ total_pages = 0
    /\ table_switcher = [items |-> <<"No database loaded">>, sel |-> "No database loaded"]
    /\ tasks = <<>>
    /\ \E V \in Views, page_size \in 1..MaxPageSize :
          probe = [fn |-> "pages", view |-> V, page_size |-> page_size,
                   pages |-> CeilDiv(Len(V), page_size), page_number |-> 0, rows |-> <<>>]

\* Lines 418-419 for the page after the last one read, while there is one
\* among the int(np.ceil(total_rows / page_size)) pages of line 436: its rows
\* are added to those read.
ReadPage ==
    /\ probe.fn = "pages"
    /\ probe.page_number < probe.pages
    /\ LET page_number == probe.page_number + 1
           offset == (page_number - 1) * probe.page_size
           rows == Slice(probe.view, offset, probe.page_size)
       IN probe' = [probe EXCEPT !.page_number = page_number, !.rows = @ \o rows]
    /\ UNCHANGED <<connVars, cacheVars, specVars, total_pages, widgetVars, sort_indicator,
                   column_attr, ignore_filters, queue, tasks, lock, dialog>>

PagesNext == ReadPage

\* The pages of a view read one after the other.
PagesSpec == PagesInit /\ [][PagesNext]_vars

\* --------------------------------------------- the choice of the best fit

\* The bound of the AIC values the candidates are given.
MaxAic == 3

\* Each candidate is given an AIC; the loop has not begun.
FitInit ==
    /\ Idle
    /\ conns = <<>>
    /\ db = 0
    /\ current_page = 1 /\ total_pages = 0
    /\ table_switcher = [items |-> <<"No database loaded">>, sel |-> "No database loaded"]
    /\ tasks = <<>>
    /\ \E aic \in [1..Len(dist_names) -> 1..MaxAic] :
          probe = [fn |-> "fit", aic |-> aic, k |-> 0, best |-> NoBest]

\* One turn of the loop of lines 691-698, for the candidate after the last
\* one tried, whose fit succeeds with the AIC it was given.
FitCandidate ==
    /\ probe.fn = "fit"
    /\ probe.k < Len(dist_names)
    /\ LET k == probe.k + 1
       IN probe' = [probe EXCEPT !.k = k,
                                 !.best = FitStep(probe.best, dist_names[k], probe.aic[k])]
    /\ UNCHANGED <<connVars, cacheVars, specVars, total_pages, widgetVars, sort_indicator,
                   column_attr, ignore_filters, queue, tasks, lock, dialog>>

FitNext == FitCandidate

\* The loop over the candidates, for every AIC they may have.
FitSpec == FitInit /\ [][FitNext]_vars

\* ------------------------------------------- fits of candidates that raise

\* The sets of candidates whose fit raises.
RaiseSets == SUBSET SeqToSet(dist_names)

\* The session as __init__ leaves it; which candidates raise is chosen.
RaiseInit ==
    /\ Idle
    /\ conns = <<>>
    /\ db = 0
    /\ current_page = 1 /\ total_pages = 0
    /\ table_switcher = [items |-> <<"No database loaded">>, sel |-> "No database loaded"]
    /\ tasks = <<>>
    /\ \E S \in RaiseSets : probe = [fn |-> "raises", raises |-> S]

RaiseNext ==
    \/ \E f \in Files : OpenFile(f)
    \/ \E c \in {"id", "val", "Cancel"}, flag \in BOOLEAN : on_data_menu(c, flag)
    \/ Dispatch
    \/ \E w \in 1..MaxTasks : WorkerStep(w)

\* A file is opened and a best fit requested, for every set of candidates
\* that raise.
RaiseSpec == RaiseInit /\ [][RaiseNext]_vars

\* ------------------------------------------- _get_csv_dataframe on its own

\* The bound of the delimited-text files read: their lines.
MaxLines == 3

\* A line of a file: the fields it has when split at commas (c) and at
\* semicolons (s), and whether its bytes are UTF-8.
LineTypes ==
    { [c |-> 2, s |-> 1, utf8 |-> TRUE], [c |-> 3, s |-> 1, utf8 |-> TRUE],
      [c |-> 1, s |-> 2, utf8 |-> TRUE], [c |-> 1, s |-> 3, utf8 |-> TRUE],
      [c |-> 1, s |-> 1, utf8 |-> FALSE] }

\* The files: the sequences of at most MaxLines lines, the header first.
CsvFiles == UNION {[1..n -> LineTypes] : n \in 0..MaxLines}

\* What pd.read_csv makes of a file: no line is EmptyDataError; bytes that
\* are not UTF-8 are UnicodeDecodeError with either separator; with
\* on_bad_lines="error" a line of more comma fields than the header is
\* ParserError, and with on_bad_lines="warn" such a line is dropped.
KindOf(lines) ==
    IF lines = <<>> THEN "empty"
    ELSE IF \E k \in 1..Len(lines) : ~lines[k].utf8 THEN "undecodable"
    ELSE IF \E k \in 2..Len(lines) : lines[k].c > lines[1].c THEN "semicolon"
    ELSE "comma"

\* A file is chosen; _get_csv_dataframe has not begun.
CsvInit ==
    /\ Idle
    /\ conns = <<>>
    /\ db = 0
    /\ current_page = 1 /\ total_pages = 0
    /\ table_switcher = [items |-> <<"No database loaded">>, sel |-> "No database loaded"]
    /\ tasks = <<>>
    /\ \E L \in CsvFiles :
          probe = [fn |-> "csv", lines |-> L, pc |-> "try", attempts |-> <<>>,
                   first |-> "none", second |-> "none", result |-> "none"]

\* A try block whose EmptyDataError is handled like a ValueError.
CsvCommaRetryingEmpty ==
    /\ probe.fn = "csv"
    /\ probe.pc = "try"
    /\ LET first == ReadCsvComma(KindOf(probe.lines))
       IN probe' = [probe EXCEPT
                      !.attempts = Append(@, "comma"),
                      !.first = first,
                      !.pc = IF first = "ok" THEN "done" ELSE "except",
                      !.result = IF first = "ok" THEN "CSV file" ELSE "none"]
    /\ UNCHANGED <<connVars, cacheVars, specVars, total_pages, widgetVars, sort_indicator,
                   column_attr, ignore_filters, queue, tasks, lock, dialog>>

\* Lines 92-95: the attempt with the comma.  Its frame is returned;
\* EmptyDataError returns pd.DataFrame(); TypeError and any other ValueError
\* lead to the last except clause.
CsvComma ==
    /\ probe.fn = "csv"
    /\ probe.pc = "try"
    /\ LET first == ReadCsvComma(KindOf(probe.lines))
       IN probe' = [probe EXCEPT
                      !.attempts = Append(@, "comma"),
                      !.first = first,
                      !.pc = IF first = "ValueError" THEN "except" ELSE "done",
                      !.result = CASE first = "ok" -> "CSV file"
                                   [] first = "EmptyDataError" -> "Empty"
                                   [] OTHER -> "none"]
    /\ UNCHANGED <<connVars, cacheVars, specVars, total_pages, widgetVars, sort_indicator,
                   column_attr, ignore_filters, queue, tasks, lock, dialog>>

\* Lines 96-97: the attempt with the semicolon, outside any try: its frame
\* is returned or its exception leaves the method.
CsvSemicolon ==
    /\ probe.fn = "csv"
    /\ probe.pc = "except"
    /\ LET second == ReadCsvSemicolon(KindOf(probe.lines))
       IN probe' = [probe EXCEPT
                      !.attempts = Append(@, "semicolon"),
                      !.second = second,
                      !.pc = "done",
                      !.result = IF second = "ok" THEN "CSV file" ELSE "Raise"]
    /\ UNCHANGED <<connVars, cacheVars, specVars, total_pages, widgetVars, sort_indicator,
                   column_attr, ignore_filters, queue, tasks, lock, dialog>>

CsvNext == CsvComma \/ CsvSemicolon

\* _get_csv_dataframe on every file.
CsvSpec == CsvInit /\ [][CsvNext]_vars

\* ------------------------------------------ loads of delimited-text files

\* What b.csv may hold.
CsvKinds == {"comma", "semicolon", "empty", "undecodable"}

\* The session as __init__ leaves it; the content of b.csv is chosen.
KindInit ==
    /\ Idle
    /\ conns = <<>>
    /\ db = 0
    /\ current_page = 1 /\ total_pages = 0
    /\ table_switcher = [items |-> <<"No database loaded">>, sel |-> "No database loaded"]
    /\ tasks = <<>>
    /\ \E K \in CsvKinds : probe = [fn |-> "kind", kind |-> K]

\* The loads, for every content of the delimited-text file.
KindSpec == KindInit /\ [][LoadNext]_vars

\* ------------------------------------------------ files under any name

\* The session as __init__ leaves it; no file has been opened.
OpenInit ==
    /\ Idle
    /\ conns = <<>>
    /\ db = 0
    /\ current_page = 1 /\ total_pages = 0
    /\ table_switcher = [items |-> <<"No database loaded">>, sel |-> "No database loaded"]
    /\ tasks = <<>>
    /\ probe = [fn |-> "open", file |-> None, raised |-> FALSE, flip |-> FALSE]

\* load_database_file(f), with the file and whether get_table_or_sheet_names
\* raised kept as history (flip tells one call from the next).
OpenNoted(f) ==
    /\ OpenFileSteps(f)
    /\ probe' = [fn |-> "open", file |-> f,
                 raised |-> (get_table_or_sheet_names(f) = <<"Raise">>),
                 flip |-> ~probe.flip]

OpenNext ==
    \/ \E f \in Files \cup OtherFiles : OpenNoted(f)
    \/ \E t \in AllTables : on_switch_table(t)
    \/ \E c \in {"id", "name", "val"} : on_column_click(c)
    \/ \E q \in Queries : on_search(q)
    \/ on_search_cancel
    \/ \E b \in BOOLEAN : on_page_change(b)
    \/ \E p \in ItemsPerPageOptions : on_set_items_per_page(p)
    \/ Dispatch
    \/ \E w \in 1..MaxTasks : LoadWorkerStep(w)

\* The loads, with files opened under names of any extension.
OpenSpec == OpenInit /\ [][OpenNext]_vars

\* ------------------------------------------------- the sort state alone

\* The bound of the clicks and resets made in a row.
MaxClicks == 4

\* a.db is open and T1 is selected, unsorted; nothing has been clicked.
ClickInit ==
    /\ Idle
    /\ conns = <<"a.db">>
    /\ db = 1
    /\ current_page = 1 /\ total_pages = 1
    /\ table_switcher = [items |-> SqliteTables("a.db"), sel |-> "T1"]
    /\ tasks = <<>>
    /\ probe = [fn |-> "click", trail |-> <<>>]

\* Lines 714-721 of on_column_click for column c: the sort state and the
\* page; the trail keeps the click and the sort state it left.
ClickApplied(c) ==
    /\ probe.fn = "click"
    /\ Len(probe.trail) < MaxClicks
    /\ LET n == ClickColumn(c)
       IN /\ sort_column' = n.sort_column
          /\ sort_order' = n.sort_order
          /\ current_page' = 1
          /\ probe' = [probe EXCEPT !.trail = Append(@, [op |-> c, sort_column |-> n.sort_column,
                                                          sort_order |-> n.sort_order])]
    /\ UNCHANGED <<connVars, cacheVars, search_query, items_per_page, table_switcher, total_pages,
                   widgetVars, sort_indicator, column_attr, ignore_filters, queue, tasks, lock,
                   dialog>>

\* reset_state, as on_switch_table and load_database_file call it.
ResetApplied ==
    /\ probe.fn = "click"
    /\ Len(probe.trail) < MaxClicks
    /\ status' = <<"Processing...">>
    /\ search_query' = NoQuery
    /\ current_page' = 1
    /\ total_pages' = 0
    /\ sort_column' = None
    /\ sort_order' = FALSE
    /\ probe' = [probe EXCEPT !.trail = Append(@, [op |-> "reset", sort_column |-> None,
                                                    sort_order |-> FALSE])]
    /\ UNCHANGED <<connVars, cacheVars, items_per_page, table_switcher, list_ctrl, next_enabled,
                   plots, sort_indicator, column_attr, ignore_filters, queue, tasks, lock, dialog>>

ClickNext ==
    \/ \E c \in SeqToSet(Columns("T1")) : ClickApplied(c)
    \/ ResetApplied

\* Clicks on the columns of the displayed table, and resets, in any order.
ClickSpec == ClickInit /\ [][ClickNext]_vars

\* ------------------------------------------------------ the long session

\* The session as __init__ leaves it.
LongInit ==
    /\ Idle
    /\ conns = <<>>
    /\ db = 0
    /\ current_page = 1 /\ total_pages = 0
    /\ table_switcher = [items |-> <<"No database loaded">>, sel |-> "No database loaded"]
    /\ tasks = <<>>
    /\ probe = [fn |-> "long"]

LongNext ==
    \/ LoadUserStep
    \/ Dispatch
    \/ \E w \in 1..(MaxTasks + 1) : LoadWorkerStep(w)

\* The loads of a session in which one more request is made.
LongSpec == LongInit /\ [][LongNext]_vars

\* ------------------------------------ fits on a column of ten values

\* The files opened: a.db, and a relational file whose only table is T2,
\* whose column id has a value in each of its ten rows.
FitFiles == {"a.db", "t.db"}

SkipNext ==
    \/ \E f \in FitFiles : OpenFile(f)
    \/ \E c \in {"id", "val", "Cancel"}, flag \in BOOLEAN : on_data_menu(c, flag)
    \/ Dispatch
    \/ \E w \in 1..MaxTasks : WorkerStep(w)

\* A file is opened and a best fit requested on its first table, for every
\* set of candidates that raise.
SkipSpec == RaiseInit /\ [][SkipNext]_vars

\* ------------------------------------------------------------ properties

\* C1: never are two load workers between acquiring and releasing
\* list_ctrl_lock.
C1_MutualExclusion ==
    Cardinality({w \in Tasks : tasks[w].pc \in {"locked", "computed", "exit"}}) <= 1

\* One load worker is inside the locked section and another waits for the lock.
C1_Witness ==
    \E w, v \in Tasks :
        /\ tasks[w].kind = "load" /\ tasks[w].pc = "computed" /\ lock = w
        /\ tasks[v].kind = "load" /\ tasks[v].pc = "start"

\* C2: the updates of the list (display_table, ClearAll) are applied in the
\* order their requests were submitted: the request whose update the list
\* shows never becomes an older one.
C2_SubmissionOrder == [][list_ctrl'.req >= list_ctrl.req]_vars

\* C3: an update of the list is applied whenever its event is run, whatever
\* has been requested or shown since: after a display_table or ClearAll event
\* the list is what the event says, the event of an older request than the
\* one shown included.
C3_UpdatesAlwaysApplied ==
    [][ (queue # <<>> /\ queue' = Tail(queue)) =>
            LET ev == Head(queue)
            IN /\ ev.type = "display_table" =>
                     list_ctrl' = [cols |-> ev.arg[3], rows |-> ev.arg[2], req |-> ev.req]
               /\ ev.type = "ClearAll" =>
                     list_ctrl' = [cols |-> <<>>, rows |-> <<>>, req |-> ev.req] ]_vars

\* All loads have finished and all events have run; the last request
\* submitted has displayed its table, and the list shows the table of an
\* older request, whose columns are not those of the table selected.
C3_Witness ==
    LET last == Len(tasks)
    IN /\ last > 1
       /\ \A w \in Tasks : tasks[w].pc = "end"
       /\ queue = <<>>
       /\ tasks[last].kind = "load" /\ tasks[last].outcome = "display"
       /\ list_ctrl.req \in 1..(last - 1)
       /\ tasks[list_ctrl.req].outcome = "display"
       /\ list_ctrl.cols # <<>>
       /\ list_ctrl.cols # DfColumns(table_switcher.sel)

\* C4: no step of a worker thread changes the list control, its sort
\* indicator, the next-page button, the status text, total_pages or
\* current_page.
C4_WorkersNeverWrite ==
    [][ (\E w \in 1..MaxTasks : WorkerStep(w)) =>
            UNCHANGED <<list_ctrl, sort_indicator, next_enabled, status, total_pages,
                        current_page>> ]_vars

\* C5: when the view of a load request cannot be computed, the worker posts,
\* in this order, the clearing of the list, the disabling of the next-page
\* button, the error message and the status "Error opening table", and
\* leaves the locked section by the exception; for a request that ended so
\* these are its only events, and no display_table event is ever its.
C5_ErrorPath ==
    /\ [][ \A w \in Tasks :
              (tasks[w].pc = "locked" /\ tasks'[w].pc # "locked") =>
                  LET t == tasks[w]
                      r == get_filtered_sorted_df(viewCache, dfCache, nObj, db, t.table,
                                                  t.sort_column, t.sort_order, t.search_query)
                  IN /\ (~r.ok) <=> (tasks'[w].outcome = "error")
                     /\ (~r.ok) =>
                           /\ tasks'[w].pc = "exit"
                           /\ queue' = queue \o
                                << [type |-> "ClearAll", req |-> w, arg |-> <<>>],
                                   [type |-> "Enable", req |-> w, arg |-> <<FALSE>>],
                                   [type |-> "MessageBox", req |-> w, arg |-> <<"Error opening table">>],
                                   [type |-> "SetStatusText", req |-> w, arg |-> <<"Error opening table">>] >> ]_vars
    /\ [](\A w \in Tasks :
              (tasks[w].kind = "load" /\ tasks[w].outcome = "error") =>
                  /\ tasks[w].posts = <<"ClearAll", "Enable", "MessageBox", "SetStatusText">>
                  /\ \A k \in 1..Len(queue) :
                        queue[k].req = w => queue[k].type # "display_table")

\* A load worker has raised and is about to leave the locked section; its
\* four events are pending.
C5_Witness ==
    \E w \in Tasks :
        /\ tasks[w].kind = "load" /\ tasks[w].outcome = "error" /\ tasks[w].pc = "exit"
        /\ lock = w
        /\ Len(queue) >= 4
        /\ queue[Len(queue)] = [type |-> "SetStatusText", req |-> w, arg |-> <<"Error opening table">>]

\* C6: a load worker that has raised does not keep list_ctrl_lock once its
\* thread has ended; and under fair scheduling, from any state in which a
\* load has raised, whatever is submitted meanwhile, a state follows in
\* which every task there is, load or fit, has run and ended, the lock is
\* free and the control thread has run every pending event.
C6_FailureIsLocal ==
    /\ [](\A w \in Tasks : tasks[w].pc = "end" => lock # w)
    /\ (\E w \in Tasks : tasks[w].kind = "load" /\ tasks[w].outcome = "error")
          ~> (/\ \A v \in Tasks : tasks[v].pc = "end" /\ tasks[v].outcome # "none"
              /\ lock = 0
              /\ queue = <<>>)

\* A load has raised and its thread has ended; a task submitted after it has
\* run and ended with its table displayed or its fit plotted.
C6_Witness ==
    \E w, v \in Tasks :
        /\ w < v
        /\ tasks[w].kind = "load" /\ tasks[w].outcome = "error" /\ tasks[w].pc = "end"
        /\ tasks[v].pc = "end" /\ tasks[v].outcome \in {"display", "fit"}
        /\ lock = 0

\* C7: no step removes a submitted task, moves it backwards or, when a
\* handler submits a further task, touches the tasks there are; and under
\* fair scheduling every load waiting for the lock gets it, and every load
\* ends as exactly one of display, no-data and error, with the events of
\* that ending and of no other.
C7_NoCancellation ==
    /\ [][ /\ Len(tasks') >= Len(tasks)
           /\ \A w \in Tasks :
                 LET Rank(pc) == CASE pc = "start" -> 0 [] pc = "locked" -> 1
                                   [] pc = "computed" -> 2 [] pc = "exit" -> 3 [] OTHER -> 4
                 IN Rank(tasks'[w].pc) >= Rank(tasks[w].pc)
           /\ Len(tasks') > Len(tasks) => SubSeq(tasks', 1, Len(tasks)) = tasks ]_vars
    /\ \A w \in 1..MaxTasks :
          []((w \in Tasks /\ tasks[w].kind = "load" /\ tasks[w].pc = "start") => <>(lock = w))
    /\ \A w \in 1..MaxTasks :
          []((w \in Tasks /\ tasks[w].kind = "load")
                => <>(w \in Tasks /\ tasks[w].pc = "end"
                      /\ tasks[w].outcome \in {"display", "nodata", "error"}))
    /\ [](\A w \in Tasks :
              (tasks[w].kind = "load" /\ tasks[w].pc \in {"exit", "end"}) =>
                  /\ tasks[w].outcome \in {"display", "nodata", "error"}
                  /\ (tasks[w].outcome = "display") <=> (tasks[w].posts # <<>> /\ tasks[w].posts[1] = "display_table")
                  /\ (tasks[w].outcome # "display") <=> (tasks[w].posts # <<>> /\ tasks[w].posts[1] = "ClearAll"))

\* A load is inside the locked section although a further request has been
\* submitted since and another table has been selected.
C7_Witness ==
    \E w \in Tasks :
        /\ w < Len(tasks)
        /\ tasks[w].kind = "load" /\ tasks[w].pc = "locked" /\ lock = w
        /\ tasks[w].table # table_switcher.sel

\* C8: in each cache, a get whose key equals that of the get before it, which
\* returned, returns the very same frame without running the body; a get
\* whose key the cache holds returns the stored frame without running the
\* body; and a get whose key the cache does not hold runs the body once.
C8_ConsecutiveGets ==
    [][ LET Get(log, logn, cache) ==
                logn # log =>
                    /\ (log.ok /\ logn.key = log.key) =>
                            (logn.ok /\ logn.ret = log.ret /\ logn.ncomp = 0)
                    /\ logn.key \in CacheKeys(cache) =>
                            /\ logn.ok /\ logn.ncomp = 0
                            /\ logn.ret = cache[lru_value(cache, logn.key)].val.id
                    /\ logn.key \notin CacheKeys(cache) => logn.ncomp = 1
        IN Get(rawLog, rawLog', dfCache) /\ Get(viewLog, viewLog', viewCache) ]_vars

\* Both caches have just been hit, and frames have been built before.
C8_Witness ==
    /\ rawLog.ok /\ rawLog.ncomp = 0 /\ rawLog.ret # 0
    /\ viewLog.ok /\ viewLog.ncomp = 0 /\ viewLog.ret # 0
    /\ nObj >= 2

\* C9 as stated: on a miss the body runs, the result is stored under the key
\* when there is one, and whether the get returns or raises no key stored
\* before is stored after.
C9_EvictsUnconditionally ==
    [][ LET Miss(log, logn, cache, cachen) ==
                (logn # log /\ logn.key \notin CacheKeys(cache)) =>
                    /\ logn.ncomp = 1
                    /\ logn.ok => (logn.key \in CacheKeys(cachen))
                    /\ CacheKeys(cache) \cap CacheKeys(cachen) = {}
        IN Miss(rawLog, rawLog', dfCache, dfCache') /\ Miss(viewLog, viewLog', viewCache, viewCache') ]_vars

\* C9 amended: on a miss the body runs; when it returns, the result is
\* stored under the key and is the only entry; when it raises, the cache is
\* left as it was, the entry stored before included.
C9_EvictsOnReturn ==
    [][ LET Miss(log, logn, cache, cachen) ==
                (logn # log /\ logn.key \notin CacheKeys(cache)) =>
                    /\ logn.ncomp = 1
                    /\ IF logn.ok
                       THEN /\ CacheKeys(cachen) = {logn.key}
                            /\ cachen[lru_value(cachen, logn.key)].val.id = logn.ret
                       ELSE cachen = cache
        IN Miss(rawLog, rawLog', dfCache, dfCache') /\ Miss(viewLog, viewLog', viewCache, viewCache') ]_vars

\* A get_df has raised on a miss and the cache still holds an entry of
\* another key.
C9_Witness ==
    /\ ~rawLog.ok /\ rawLog.ncomp = 1
    /\ dfCache # NoEntry
    /\ rawLog.key \notin CacheKeys(dfCache)

\* C10: for every connection, at most one entry of the raw cache and at most
\* one entry of the view cache belongs to it.
C10_OneEntryPerConnection ==
    \A c \in 1..Len(conns) :
        /\ Cardinality({k \in 1..Len(dfCache) : dfCache[k].key[1] = c}) <= 1
        /\ Cardinality({k \in 1..Len(viewCache) : viewCache[k].key[1] = c}) <= 1

\* After gets on two connections: the view cached is the first
\* connection's and the raw table cached is the second's, which replaced
\* the first's.
C10_Witness ==
    /\ Len(conns) >= 2
    /\ Len(viewCache) = 1 /\ viewCache[1].key[1] = 1
    /\ Len(dfCache) = 1 /\ dfCache[1].key[1] = 2
    /\ dfCache[1].val.id > 1

\* The last request of the alternation, and the cache it went to.
AltLog == IF probe.fn = "get_df" THEN rawLog ELSE viewLog
AltCache == IF probe.fn = "get_df" THEN dfCache ELSE viewCache

\* C11 as stated: of requests that alternate between two distinct keys A, B,
\* A, B, ..., every one runs the body and none is served from the cache.
C11_AlternationAlwaysMisses ==
    [][probe'.calls > probe.calls => AltLog'.ncomp = 1]_vars

\* C11 amended: of requests that alternate between two distinct keys, the
\* first and every one that follows a request that returned run the body;
\* one that follows a request that raised is served from the cache when the
\* cache still holds its key.
C11_AlternationOfReturningMisses ==
    [][probe'.calls > probe.calls =>
          /\ (probe.calls = 0 \/ AltLog.ok) => AltLog'.ncomp = 1
          /\ (probe.calls > 0 /\ ~AltLog.ok /\ AltLog'.key \in CacheKeys(AltCache)) =>
                (AltLog'.ok /\ AltLog'.ncomp = 0)]_vars

\* A, B, A have been requested of get_filtered_sorted_df, each returned, and
\* the third request ran the body although A was computed two requests
\* before.
C11_Witness ==
    /\ probe.fn = "get_filtered_sorted_df"
    /\ probe.calls = 3
    /\ viewLog.key = probe.keys[1]
    /\ viewLog.ok /\ viewLog.ncomp = 1
    /\ nObj >= 3

\* C12: with more than one page and the current page among them, a page
\* change forward from the last page goes to page 1, one backward from page 1
\* goes to the last page, any other goes one page on or back, and the page
\* it goes to is one of the pages; the load it requests is of that page.
C12_PageWraps ==
    [][ \A backward \in BOOLEAN :
          (total_pages > 1 /\ current_page \in 1..total_pages /\ on_page_change(backward)) =>
              /\ current_page' \in 1..total_pages
              /\ (~backward /\ current_page = total_pages) => current_page' = 1
              /\ (backward /\ current_page = 1) => current_page' = total_pages
              /\ (~backward /\ current_page < total_pages) => current_page' = current_page + 1
              /\ (backward /\ current_page > 1) => current_page' = current_page - 1
              /\ tasks'[Len(tasks')].page_number = current_page' ]_vars

\* Two page changes have been made among three pages or more: the first
\* went to the last page and the second, forward from it, to page 1.
C12_Witness ==
    /\ total_pages >= 3
    /\ Len(tasks) = 2
    /\ tasks[1].page_number = total_pages
    /\ tasks[2].page_number = 1
    /\ current_page = 1

\* C13: for every view and every page size above 0, the rows of the pages
\* 1..ceil(len/page_size), one after the other, are the rows of the view,
\* each once and in the view's order; and the pages read so far are the
\* view's first rows.
C13_PagesCoverView ==
    probe.fn = "pages" =>
        /\ probe.page_number = probe.pages => probe.rows = probe.view
        /\ Len(probe.rows) <= Len(probe.view)
        /\ probe.rows = SubSeq(probe.view, 1, Len(probe.rows))
        /\ probe.page_number < probe.pages =>
                Len(probe.rows) = probe.page_number * probe.page_size

\* All three pages of a view have been read, the last of them not full.
C13_Witness ==
    /\ probe.fn = "pages"
    /\ probe.pages = 3 /\ probe.page_number = 3
    /\ Len(probe.view) % probe.page_size # 0
    /\ probe.rows = probe.view

\* C14: when a load worker has computed its view and goes on to its end
\* (the load has been processed), total_pages is ceil(total_rows / page_size)
\* of that view and that page size: 0 for a view without rows, 1 at least
\* otherwise.
C14_TotalPagesIsCeil ==
    [][ \A w \in Tasks :
          (tasks[w].kind = "load" /\ tasks[w].pc = "computed" /\ tasks'[w].pc # "computed") =>
              LET total_rows == Len(tasks[w].df.rows)
              IN /\ total_pages' = CeilDiv(total_rows, tasks[w].page_size)
                 /\ total_rows > 0 => total_pages' >= 1
                 /\ total_rows = 0 => total_pages' = 0 ]_vars

\* C15: every table switch, column click, search, search cancel and
\* items-per-page selection, from whatever state it is made, leaves
\* current_page at 1; and a step that moves current_page to a page other
\* than 1 is a page change.
C15_ChangeResetsPage ==
    /\ [][ (\/ \E t \in AllTables : on_switch_table(t)
            \/ \E c \in {"id", "name", "val"} : on_column_click(c)
            \/ \E q \in Queries : on_search(q)
            \/ on_search_cancel
            \/ \E p \in ItemsPerPageOptions : on_set_items_per_page(p))
               => current_page' = 1 ]_vars
    /\ [][ (current_page' # 1 /\ current_page' # current_page)
               => \E backward \in BOOLEAN : on_page_change(backward) ]_vars

\* C16: the progress dialog of a task opens only in the step in which the
\* task's grace timer fires, and only when its worker is alive then; a task
\* that has ended before its timer fires gets no dialog, then or later; and
\* the firing of a timer changes nothing of any task but that timer, nor the
\* lock, nor the events pending.
C16_DialogOnlyIfAliveAtTimer ==
    /\ [][ \A w \in Tasks :
              (dialog' = w /\ dialog # w) =>
                  /\ is_alive(w)
                  /\ tasks[w].timer = "armed" /\ tasks'[w].timer = "fired" ]_vars
    /\ [](\A w \in Tasks : (~is_alive(w) /\ tasks[w].timer = "armed") => dialog # w)
    /\ [][ \A w \in Tasks :
              (~is_alive(w) /\ tasks[w].timer = "armed" /\ tasks'[w].timer = "fired") =>
                  dialog' = dialog ]_vars
    /\ [][ \A w \in Tasks :
              tasks'[w].timer # tasks[w].timer =>
                  /\ tasks' = [tasks EXCEPT ![w].timer = "fired"]
                  /\ UNCHANGED <<lock, queue>> ]_vars

\* The first task ended before its timer fired, and the timer has fired
\* without a dialog; the second task was alive when its timer fired and its
\* dialog is open.
C16_Witness ==
    /\ Len(tasks) = 2
    /\ tasks[1].pc = "end" /\ tasks[1].timer = "fired"
    /\ is_alive(2) /\ tasks[2].timer = "fired"
    /\ dialog = 2

\* C17: when the grace timer of a task fires while another worker of the
\* same thread name is alive, no dialog is opened; a dialog that is open is
\* never replaced by another, it is only closed; so never are two dialogs
\* open for one thread name.
C17_OneDialogPerName ==
    /\ [][ \A w \in Tasks :
              (/\ tasks[w].timer = "armed" /\ tasks'[w].timer = "fired"
               /\ \E v \in Tasks : v # w /\ tasks[v].kind = tasks[w].kind /\ tasks[v].pc # "end")
                  => dialog' = dialog ]_vars
    /\ [][dialog # 0 => dialog' \in {dialog, 0}]_vars
    /\ [](\A kind \in {"load", "fit"} :
              Cardinality({w \in Tasks : dialog = w /\ tasks[w].kind = kind}) <= 1)

\* The timer of the first of two live loads has fired and no dialog is open:
\* the second load, alive then, kept it from opening.
C17_Witness ==
    /\ Len(tasks) = 2
    /\ tasks[1].kind = "load" /\ tasks[2].kind = "load"
    /\ is_alive(1) /\ is_alive(2)
    /\ tasks[1].timer = "fired"
    /\ dialog = 0

\* C18: list_ctrl_lock is never held by a fit worker; a fit worker that has
\* been started can run whether the lock is held or not, so it never waits
\* for it; and the step of a fit worker leaves the lock as it is, held
\* included.
C18_FitTakesNoLock ==
    /\ [](lock # 0 => tasks[lock].kind = "load")
    /\ [](\A w \in Tasks :
              (tasks[w].kind = "fit" /\ tasks[w].pc = "start") => ENABLED F_Run(w))
    /\ [][ \A w \in Tasks :
              (tasks[w].kind = "fit" /\ tasks'[w].pc # tasks[w].pc) => lock' = lock ]_vars

\* A load worker holds the lock and has not left the locked section; the fit
\* requested on the table that load has displayed has run and ended
\* meanwhile.
C18_Witness ==
    \E v, w \in Tasks :
        /\ v < w
        /\ tasks[v].kind = "load" /\ tasks[v].pc = "exit" /\ lock = v
        /\ list_ctrl.req = v
        /\ tasks[w].kind = "fit" /\ tasks[w].pc = "end" /\ tasks[w].outcome = "fit"

\* C19: whatever AIC each of the eight candidates has, once the loop has
\* tried them all the best is a candidate of the least AIC, and of these the
\* one listed first; and after each turn of the loop it is so among the
\* candidates tried.
C19_FirstMinimumAic ==
    (probe.fn = "fit" /\ probe.k > 0) =>
        LET tried == 1..probe.k
            least == CHOOSE a \in {probe.aic[i] : i \in tried} :
                        \A i \in tried : a <= probe.aic[i]
            first == CHOOSE i \in tried :
                        /\ probe.aic[i] = least
                        /\ \A j \in tried : probe.aic[j] = least => i <= j
        IN /\ ~probe.best.inf
           /\ probe.best.aic = least
           /\ probe.best.dist = dist_names[first]

\* All eight candidates have been tried; two of them share the least AIC,
\* the first candidate has a greater one, and the best is the first of the
\* two.
C19_Witness ==
    /\ probe.fn = "fit"
    /\ probe.k = Len(dist_names)
    /\ \E i, j \in 2..Len(dist_names) :
          /\ i < j
          /\ probe.aic[i] = probe.aic[j]
          /\ \A n \in 1..Len(dist_names) : probe.aic[n] >= probe.aic[i]
          /\ \A n \in 1..(i - 1) : probe.aic[n] > probe.aic[i]
          /\ probe.best.dist = dist_names[i]

\* C20: a fit on a column of fewer than 10 values that are not missing,
\* however many rows its frame has, ends in an error and posts no fit
\* result.
C20_FewValuesNoFit ==
    [][ \A w \in Tasks :
          (/\ tasks[w].kind = "fit" /\ tasks[w].pc = "start" /\ tasks'[w].pc = "end"
           /\ NonMissing(tasks[w].df, tasks[w].sort_column) < MinDataCount)
              => /\ tasks'[w].outcome = "error"
                 /\ \A k \in 1..Len(queue') :
                       queue'[k].req = w => queue'[k].type # "show_fit" ]_vars


\* The CallAfter events of task w that are posted and not yet run.
Pending(w, type) == \E k \in 1..Len(queue) : queue[k].req = w /\ queue[k].type = type

C23_ZeroRowsIsNotFailure ==
    /\ (probe.fn = "kind" /\ probe.kind = "empty") =>
          /\ (rawLog # NoLog /\ conns[rawLog.key[1]] = "b.csv") => rawLog.ok
          /\ \A k \in 1..Len(dfCache) :
                conns[dfCache[k].key[1]] = "b.csv" => dfCache[k].val.rows = <<>>
    /\ \A w \in Tasks :
          (tasks[w].kind = "load" /\ tasks[w].pc = "exit") =>
              /\ (tasks[w].df # NoDf /\ tasks[w].rows = <<>>) =>
                    /\ tasks[w].outcome = "nodata"
                    /\ tasks[w].posts = EventTypes(ResetEvents(w, "No data found in table"))
              /\ tasks[w].outcome = "error" => tasks[w].df = NoDf
              /\ \A k \in 1..Len(queue) :
                    (queue[k].req = w /\ queue[k].type = "SetStatusText") =>
                        queue[k].arg =
                            CASE tasks[w].outcome = "nodata" -> <<"No data found in table">>
                              [] tasks[w].outcome = "error" -> <<"Error opening table">>
                              [] OTHER -> <<"Showing table">>

\* The empty delimited-text file was opened, its load has ended by the
\* no-data path and the status bar says so.
C23_Witness ==
    /\ probe.fn = "kind" /\ probe.kind = "empty"
    /\ db # 0 /\ conns[db] = "b.csv"
    /\ rawLog.ok
    /\ \E w \in Tasks : tasks[w].kind = "load" /\ tasks[w].outcome = "nodata" /\ ~is_alive(w)
    /\ status = <<"No data found in table">>


\* The extension of f, in lower case, is none of db, db3, sqlite, sqlite3,
\* xlsx, csv.
Unsupported(f) ==
    LowerStr(Ext(f)) \notin {ExtDb, ExtDb3, ExtSqlite, ExtSqlite3, ExtXlsx, ExtCsv}

\* C24: opening a file whose extension, compared without regard to case, is
\* not one of db, db3, sqlite, sqlite3, xlsx, csv raises, and leaves the
\* connection, the table list and its selection, the sort, the search, the
\* page size, current_page, total_pages and the tasks as they were.
C24_UnsupportedOpenIsRecoverable ==
    [][ (probe' # probe /\ probe'.fn = "open" /\ Unsupported(probe'.file)) =>
            /\ probe'.raised
            /\ UNCHANGED <<conns, db, table_switcher, sort_column, sort_order, search_query,
                           items_per_page, current_page, total_pages, tasks>> ]_vars

\* A file of an unsupported extension was last opened, and it raised, in a
\* session that shows a page of a table of several pages.
C24_Witness ==
    /\ probe.fn = "open" /\ probe.file # None
    /\ Unsupported(probe.file) /\ probe.raised
    /\ db # 0 /\ list_ctrl.rows # <<>> /\ total_pages > 1


\* The sort state before step k of the trail.
SortBefore(k) ==
    IF k = 1 THEN [sort_column |-> None, sort_order |-> FALSE]
    ELSE [sort_column |-> probe.trail[k - 1].sort_column,
          sort_order |-> probe.trail[k - 1].sort_order]

\* C25: a click on a column other than sort_column leaves (that column,
\* ascending); a click on sort_column leaves (same column, descending) when
\* it was ascending and (None, original order) when it was descending;
\* three clicks in a row on one column of an unsorted list leave it
\* unsorted; and sort_column = None goes with sort_order = False, always.
C25_ClicksCycle ==
    probe.fn = "click" =>
        /\ sort_column = None => sort_order = FALSE
        /\ \A k \in 1..Len(probe.trail) :
              LET b == SortBefore(k)
                  a == probe.trail[k]
                  c == a.op
              IN /\ a.sort_column = None => a.sort_order = FALSE
                 /\ k = Len(probe.trail) => (a.sort_column = sort_column /\ a.sort_order = sort_order)
                 /\ (c # "reset" /\ b.sort_column # c) =>
                        (a.sort_column = c /\ a.sort_order = TRUE)
                 /\ (c # "reset" /\ b.sort_column = c /\ b.sort_order) =>
                        (a.sort_column = c /\ a.sort_order = FALSE)
                 /\ (c # "reset" /\ b.sort_column = c /\ ~b.sort_order) =>
                        (a.sort_column = None /\ a.sort_order = FALSE)
                 /\ (k >= 3 /\ c # "reset" /\ probe.trail[k - 1].op = c /\ probe.trail[k - 2].op = c
                        /\ SortBefore(k - 2).sort_column = None) =>
                        a.sort_column = None

\* Three clicks in a row on id, from the unsorted list, were made and the
\* list is unsorted again.
C25_Witness ==
    /\ probe.fn = "click"
    /\ Len(probe.trail) = 3
    /\ \A k \in 1..3 : probe.trail[k].op = "id"
    /\ probe.trail[1].sort_column = "id" /\ probe.trail[1].sort_order
    /\ probe.trail[2].sort_column = "id" /\ ~probe.trail[2].sort_order
    /\ sort_column = None /\ sort_order = FALSE


\* C26: whenever the grace timer of a task fires while its worker is alive,
\* a progress dialog for a task of that thread name is open afterwards.
C26_IndicatorAfterTimer ==
    [][ \A w \in Tasks :
          (tasks[w].timer = "armed" /\ tasks'[w].timer = "fired" /\ is_alive(w)) =>
              (dialog' # 0 /\ tasks[dialog'].kind = tasks[w].kind) ]_vars


\* The load submitted last has ended by the error or the no-data path, its
\* events were the last ones run, and no thread is alive: no later load has
\* succeeded.
LastLoadFailed ==
    /\ tasks # <<>>
    /\ \A w \in Tasks : ~is_alive(w)
    /\ tasks[Len(tasks)].outcome \in {"error", "nodata"}
    /\ queue = <<>>
    /\ list_ctrl = [cols |-> <<>>, rows |-> <<>>, req |-> Len(tasks)]
    /\ ~next_enabled

\* C27: after a load has ended by the error or the no-data path, and until
\* a later load succeeds, on_page_change does nothing: it neither changes
\* current_page nor submits a load.
C27_FailureDisablesNavigation ==
    (LastLoadFailed /\ MayStart) => ~ENABLED (\E backward \in BOOLEAN : on_page_change(backward))


\* C28: a load whose view has rows asks for one of the view's pages: when
\* its worker has computed the view, page_number lies in
\* 1..ceil(rows / page_size).
C28_RequestsExistingPage ==
    \A w \in Tasks :
        (tasks[w].kind = "load" /\ tasks[w].pc = "computed" /\ Len(tasks[w].df.rows) > 0) =>
            tasks[w].page_number \in 1..CeilDiv(Len(tasks[w].df.rows), tasks[w].page_size)


\* The columns of table t of the file of connection c (none when the table
\* cannot be read).
TableColumns(c, t) ==
    LET tab == get_df_body(conns[c], t)
    IN IF tab = "Raise" THEN {} ELSE SeqToSet(DfColumns(tab))

\* C29: the sort_column of every load request is None or a column of the
\* table the request names.
C29_SortColumnOfRequestedTable ==
    \A w \in Tasks :
        (tasks[w].kind = "load" /\ tasks[w].pc = "start") =>
            \/ tasks[w].sort_column = None
            \/ tasks[w].sort_column \in TableColumns(tasks[w].conn, tasks[w].table)


\* C30: the view of a load request is asked of the connection that was
\* self.db when the request was submitted.
C30_ReadsSubmittedConnection ==
    [][ \A w \in Tasks :
          (tasks[w].kind = "load" /\ tasks[w].pc = "locked" /\ tasks'[w].pc # "locked") =>
              viewLog'.key[1] = tasks[w].conn ]_vars


\* C31: a fit on a column of at least ten values, of which at least one
\* candidate's fit does not raise, ends with the plot of the best of the
\* candidates that did not raise: those that raise are passed over.
C31_RaisingCandidateSkipped ==
    [][ \A w \in Tasks :
          (/\ tasks[w].kind = "fit" /\ tasks[w].pc = "start" /\ tasks'[w].pc = "end"
           /\ NonMissing(tasks[w].df, tasks[w].sort_column) >= MinDataCount
           /\ \E k \in 1..Len(dist_names) :
                  ~FitRaises(tasks[w].df.tab, tasks[w].sort_column, dist_names[k])) =>
              /\ tasks'[w].outcome = "fit"
              /\ tasks'[w].posts = <<"show_fit">>
              /\ queue' = Append(queue,
                    [type |-> "show_fit", req |-> w,
                     arg |-> <<FitLoopSkipping(tasks[w].df.tab, tasks[w].sort_column, 1,
                                               NoBest).best.dist>>]) ]_vars

=============================================================================
